---- MODULE Spec2Model ----
(***************************************************************************)
(* Conversation orchestration pipeline of the donna assistant bot.        *)
(*                                                                         *)
(* Part 1 models donna/server/handlers.py (PostHandler) together with     *)
(* donna/database/models.py and donna/assistant/openai_client.py: every   *)
(* request thread of the ThreadedHTTPServer walks through the handler one *)
(* store operation or one remote call at a time.                          *)
(* Part 2 models src/api/webhook_handlers.py (MessageWebhookHandler) over *)
(* src/database/db_manager.py.                                            *)
(* Part 3 runs the save_message variants of the repository on bare stores. *)
(* Part 4 models src/modules/memory.py on the memory table, part 5 the     *)
(* IntegrationRegistry of src/modules/integrations, part 6 the turns of    *)
(* src/modules/message_handler.py with the extraction tasks of memory.py,  *)
(* part 7 the subscription commands of src/modules/subscription_manager.py *)
(* and part 8 the OAuth state tokens of integrations/auth_utils.py.        *)
(***************************************************************************)
EXTENDS Integers, Sequences, FiniteSets, Bags, TLC

VARIABLES
    th,             \* request thread -> position in PostHandler and its locals
    messages,       \* conversations.db, table messages (rows in rowid order)
    conversations,  \* conversations.db, table conversations (set of rows)
    subscriptions,  \* users.db, table subscriptions (rows in rowid order)
    outbox,         \* bag of send_text calls made to the messaging gateway
    created,        \* chat -> number of openai.beta.threads.create() calls made for it
    nextThread,     \* number of remote threads created so far (ids are 1..nextThread)
    nextBot,        \* number of provider message ids handed out by send_text
    turns,          \* number of HTTP deliveries accepted so far
    stripeLast,     \* the Stripe webhook request handled last and its outcome
    apiMessages,    \* MessageWebhookHandler: table messages of db_manager
    apiThreads,     \* MessageWebhookHandler: table conversations of db_manager
    apiUsers,       \* MessageWebhookHandler: users with subscription_active = 1
    apiOutbox,      \* MessageWebhookHandler: bag of MessagingService.send_text calls
    apiLast,        \* MessageWebhookHandler: the request handled last and its outcome
    apiPosts,       \* MessageWebhookHandler: number of requests handled
    modMessages,    \* src/modules/database.py: table messages
    lastSave,       \* the save_message call made last on a bare store
    memory,         \* src/modules/database.py: table memory (set of rows)
    memClock,       \* CURRENT_TIMESTAMP of messages.db, in seconds
    memLast,        \* the memory operation made last and what it found
    regLast,        \* the message routed last by the IntegrationRegistry
    mhThreads,      \* src/modules/database.py: table threads (set of rows)
    mhLast,         \* the process_message_with_alfred call made last
    mhCalls,        \* calls of message_handler.py and memory.py tasks made so far
    exLast,         \* the extraction task of memory.py called last
    subRows,        \* src/modules/database.py: table subscriptions (rowid order)
    subLast,        \* the handle_subscription_command call made last
    OAUTH_STATES,   \* auth_utils.py: the state tokens of the module-level dict
    oauthTh,        \* request thread -> position in handle_oauth_callback
    oauthIssued,    \* number of tokens generate_oauth_state has returned
    oauthLog        \* ghost: token -> verifications returned, exchanges made

vars == << th, messages, conversations, subscriptions, outbox, created,
           nextThread, nextBot, turns, apiMessages, apiThreads, apiUsers,
           apiOutbox, apiLast, apiPosts, modMessages, lastSave, stripeLast,
           memory, memClock, memLast, regLast, mhThreads, mhLast, mhCalls,
           exLast, subRows, subLast, OAUTH_STATES, oauthTh, oauthIssued,
           oauthLog >>

donnaVars == << th, messages, conversations, subscriptions, outbox, created,
                nextThread, nextBot, turns, stripeLast >>
apiVars == << apiMessages, apiThreads, apiUsers, apiOutbox, apiLast, apiPosts >>
storeVars == << modMessages, lastSave >>
mhVars == << mhThreads, mhLast, mhCalls, exLast >>
subVars == << subRows, subLast >>
oauthVars == << OAUTH_STATES, oauthTh, oauthIssued, oauthLog >>
auxVars == << subVars, oauthVars >>
modVars == << memory, memClock, memLast, regLast, mhVars, auxVars >>

----------------------------------------------------------------------------
(* Bounds of the model *)

MaxTurns == 2        \* HTTP deliveries per run
MaxStoreRows == 3    \* rows a messages table holds in a run of the bare stores
MaxApiPosts == 3     \* deliveries to MessageWebhookHandler per run
MaxPolls == 2        \* runs.retrieve calls followed in one poll loop
MaxMemRows == 6      \* rows the memory table holds in a run
MaxCalls == 2        \* calls of process_message_with_alfred, or of extraction
                     \* tasks, per run
MaxCommands == 2     \* messages passed to the subscription commands per run
MaxTokens == 2       \* OAuth state tokens issued per run
MaxCallbacks == 3    \* OAuth callback requests per run

(* Program constants *)

FreeTierLimit == 30  \* handlers.py: elif alfred_message_count >= 30
SummaryEvery == 10   \* message_handler.py: if total_messages % 10 == 0
CleanUpEvery == 50   \* message_handler.py: if total_messages % 50 == 0
DefaultMaxMemories == 50  \* memory.py: clean_up_memories(chat_guid, max_memories=50)
SentimentMinLen == 10     \* memory.py: if len(message_text) < 10: return
EntityMinLen == 50        \* memory.py: if len(message_text) <= 50: return
NotesKept == 3            \* message_handler.py: for note in important_notes[:3]

----------------------------------------------------------------------------
(* Value universes *)

NULL == "NULL"                       \* Python None / SQL NULL
Threads == {"t1", "t2"}              \* request threads of ThreadedHTTPServer
Chats == {"c1", "c2"}                \* chat_guid values
Chat == "c1"                         \* the conversation the deliveries belong to
OtherChat == "c2"                    \* another conversation of the store
Phone == "+1"                        \* an address with a leading "+"
Email == "a@x"                       \* any other address
Unknown == "Unknown"                 \* default of handle.address
Senders == {Phone, Email, Unknown}
BotSender == "alfred@gtfol.inc"
ActivationCode == "ACTIVATE"         \* SECRET_SUBSCRIPTION_ACTIVATION_CODE
DeactivationCode == "DEACTIVATE"     \* SECRET_SUBSCRIPTION_DEACTIVATION_CODE
Texts == {"hello", ActivationCode, DeactivationCode}
InGuid(n) == << "in", n >>           \* guid of an inbound event
BotGuid(n) == << "out", n >>         \* guid returned by the gateway for a sent text
HistGuid(n) == << "hist", n >>       \* guid of a row written by an earlier turn
NoGuid == << "null", 0 >>            \* a payload without data.guid
Guids == {InGuid(1), InGuid(2)}
NoThread == 0                        \* thread_id of a conversation without thread

Row(c, s, g) == [chat |-> c, sender |-> s, guid |-> g]

----------------------------------------------------------------------------
(* Part 1a: donna/database/models.py *)

\* SELECT COUNT(*) FROM messages WHERE chat_guid = ?  (a NULL chat matches no row)
CountRows(tbl, c) ==
    IF c = NULL THEN 0
    ELSE Cardinality({i \in DOMAIN tbl : tbl[i].chat = c})

get_total_message_count(c) == CountRows(messages, c)

\* The UNIQUE constraint of messages.message_guid: an insert conflicts when a
\* row already holds the same non-NULL guid.
GuidConflict(tbl, g) ==
    /\ g # NoGuid
    /\ \E i \in DOMAIN tbl : tbl[i].guid = g

\* A save_message that never sees a conflict (a messages table whose
\* message_guid column lost its UNIQUE constraint)
SaveMessageNeverRaises(tbl, g) == FALSE

\* save_message: a plain INSERT; on a conflict sqlite3.IntegrityError is raised
\* and nothing is written.  SaveMessageRaises tells the two outcomes apart.
SaveMessageRaises(tbl, g) == GuidConflict(tbl, g)

save_message(tbl, c, s, g) ==
    IF SaveMessageRaises(tbl, g) THEN tbl ELSE Append(tbl, Row(c, s, g))

\* SELECT thread_id FROM conversations WHERE chat_guid = ?; fetchone()
ThreadRows(c) == {r \in conversations : r.chat = c}

get_thread_id(c) ==
    IF ThreadRows(c) = {} THEN NoThread
    ELSE (CHOOSE r \in ThreadRows(c) : TRUE).thread

\* INSERT OR REPLACE on the primary key chat_guid
save_thread_id(c, id) ==
    {r \in conversations : r.chat # c} \cup {[chat |-> c, thread |-> id]}

SubRow(p, e, st) == [phone |-> p, email |-> e, status |-> st]

\* check_subscription_status: None without identity, else the status of a row
\* matching the phone number (or, without phone number, the email).  fetchone()
\* on a query without ORDER BY may return any matching row.
StatusResults(p, e) ==
    IF p = NULL /\ e = NULL THEN {NULL}
    ELSE LET hit == IF p # NULL
                    THEN {i \in DOMAIN subscriptions : subscriptions[i].phone = p}
                    ELSE {i \in DOMAIN subscriptions : subscriptions[i].email = e}
         IN  IF hit = {} THEN {NULL} ELSE {subscriptions[i].status : i \in hit}

\* save_user_subscription: INSERT OR REPLACE; only phone_number is UNIQUE, so a
\* row is replaced when it holds the same non-NULL phone number.
SubscriptionRaises(p, e) == p = NULL /\ e = NULL

save_user_subscription(st, p, e) ==
    LET kept == SelectSeq(subscriptions, LAMBDA r : p = NULL \/ r.phone # p)
    IN  Append(kept, SubRow(p, e, st))

\* find_latest_chat_guid: the chat of the newest row written by the sender
find_latest_chat_guid(ident) ==
    LET hit == {i \in DOMAIN messages : messages[i].sender = ident}
    IN  IF hit = {} THEN NULL
        ELSE messages[CHOOSE i \in hit : \A j \in hit : j <= i].chat

----------------------------------------------------------------------------
(* Part 1b: donna/server/handlers.py, PostHandler *)

Idle == [pc |-> "idle", chat |-> NULL, sender |-> NULL, text |-> NULL,
         guid |-> NoGuid, first |-> FALSE, count |-> 0, status |-> NULL,
         route |-> NULL, thr |-> NoThread, run |-> NULL,
         resp |-> NULL, sent |-> NoGuid, dup |-> FALSE, http |-> NULL,
         turn |-> 0, thr0 |-> NoThread, polls |-> 0]

\* dup and turn are not locals of the handler: dup remembers whether the guid
\* of the delivery was stored already when the delivery arrived, turn is the
\* number of the request among those the server received.  thr0 keeps what
\* get_thread_id returned (thr becomes thread.id), polls counts the
\* runs.retrieve calls of the poll loop.

\* phone_number / email of handle_new_message (lines 154-163)
PhoneOf(s) == IF s # Unknown /\ s = Phone THEN s ELSE NULL
EmailOf(s) == IF s # Unknown /\ s # Phone THEN s ELSE NULL

\* One send_text call, remembered with the inbound guid and the number of the
\* request making it
Sent(c, kind, g, n) == [chat |-> c, kind |-> kind, guid |-> g, turn |-> n]
Send(c, kind, g, n) == outbox (+) SetToBag({Sent(c, kind, g, n)})

\* do_POST answers 200 after handle_json and 400 after a ValueError; any other
\* exception leaves do_POST uncaught and the request without a response: http
\* then names the exception.
Return(t, code) == th' = [th EXCEPT ![t].pc = "done", ![t].http = code]
Goto(t, label) == th' = [th EXCEPT ![t].pc = label]

\* do_POST / handle_json / handle_new_message up to line 170, for a delivery
\* whose fields are drawn from the given sets.
\* 400: a Content-Type other than JSON, an unparsable body, or an empty chats
\* list (ValueError); 200 at once: another event type or a data field that is
\* no dict; 200 after the fields are read (lines 145-170): an event with
\* isFromMe, whose sender is the bot's own address.
do_POST(t, chats, senders, texts, guids) ==
    /\ th[t].pc = "idle"
    /\ turns < MaxTurns
    /\ turns' = turns + 1
    /\ \/ Return(t, "400")
       \/ Return(t, "200")
       \/ \E c \in chats, g \in guids :
             th' = [th EXCEPT ![t] = [Idle EXCEPT !.pc = "done", !.http = "200",
                        !.chat = c, !.sender = BotSender, !.text = "hello",
                        !.guid = g, !.dup = GuidConflict(messages, g),
                        !.turn = turns + 1]]
       \/ \E c \in chats, s \in senders, x \in texts, g \in guids :
             th' = [th EXCEPT ![t] = [Idle EXCEPT !.pc = "first_count",
                        !.chat = c, !.sender = s, !.text = x, !.guid = g,
                        !.dup = GuidConflict(messages, g),
                        !.turn = turns + 1]]
    /\ UNCHANGED << apiVars, storeVars, modVars, stripeLast, messages, conversations, subscriptions, outbox, created,
                    nextThread, nextBot >>

\* line 173: is_first_message = get_total_message_count(chat_guid) == 0
FirstCount(t) ==
    /\ th[t].pc = "first_count"
    /\ th' = [th EXCEPT ![t].pc = "save_inbound",
                        ![t].first = (get_total_message_count(th[t].chat) = 0)]
    /\ UNCHANGED << apiVars, storeVars, modVars, stripeLast, messages, conversations, subscriptions, outbox, created,
                    nextThread, nextBot, turns >>

\* A turn that goes on to the gate when its inbound row could not be written
SaveInboundSwallows(t) ==
    /\ th[t].pc = "save_inbound"
    /\ messages' = save_message(messages, th[t].chat, th[t].sender, th[t].guid)
    /\ IF th[t].chat = NULL THEN Return(t, "AttributeError")
       ELSE IF th[t].text \in {ActivationCode, DeactivationCode}
            THEN Return(t, "NameError")
       ELSE Goto(t, "gate_count")
    /\ UNCHANGED << apiVars, storeVars, modVars, stripeLast, conversations, subscriptions, outbox, created,
                    nextThread, nextBot, turns >>

\* A save that looks for the guid when the delivery arrives and inserts later
\* without looking again
SaveInboundChecksAtArrival(t) ==
    /\ th[t].pc = "save_inbound"
    /\ messages' = IF th[t].dup THEN messages
                   ELSE Append(messages,
                               Row(th[t].chat, th[t].sender, th[t].guid))
    /\ IF th[t].dup
       THEN Return(t, "IntegrityError")
       ELSE IF th[t].chat = NULL THEN Return(t, "AttributeError")
       ELSE IF th[t].text \in {ActivationCode, DeactivationCode}
            THEN Return(t, "NameError")
       ELSE Goto(t, "gate_count")
    /\ UNCHANGED << apiVars, storeVars, modVars, stripeLast, conversations, subscriptions, outbox, created,
                    nextThread, nextBot, turns >>

\* lines 176-225: save the inbound message, then the local checks that follow
\* it: chat_guid.startswith fails on a missing chat guid (AttributeError), and
\* either backdoor code calls save_user_subscription, a name handlers.py never
\* imports (NameError).
SaveInbound(t) ==
    /\ th[t].pc = "save_inbound"
    /\ messages' = save_message(messages, th[t].chat, th[t].sender, th[t].guid)
    /\ IF SaveMessageRaises(messages, th[t].guid)
       THEN Return(t, "IntegrityError")
       ELSE IF th[t].chat = NULL THEN Return(t, "AttributeError")
       ELSE IF th[t].text \in {ActivationCode, DeactivationCode}
            THEN Return(t, "NameError")
       ELSE Goto(t, "gate_count")
    /\ UNCHANGED << apiVars, storeVars, modVars, stripeLast, conversations, subscriptions, outbox, created,
                    nextThread, nextBot, turns >>

\* line 228: alfred_message_count = get_total_message_count(chat_guid)
GateCount(t) ==
    /\ th[t].pc = "gate_count"
    /\ th' = [th EXCEPT ![t].pc = "gate_status",
                        ![t].count = get_total_message_count(th[t].chat)]
    /\ UNCHANGED << apiVars, storeVars, modVars, stripeLast, messages, conversations, subscriptions, outbox, created,
                    nextThread, nextBot, turns >>

\* A gate that looks at the message count before the status
GateCountFirst(status, count) ==
    IF count >= FreeTierLimit THEN "payment"
    ELSE IF status = "expired" THEN "expired"
    ELSE "alfred"

\* A gate that treats an expired subscription like a missing one
GateExpiredAsNone(status, count) ==
    IF status = "active" THEN "alfred"
    ELSE IF count >= FreeTierLimit THEN "payment"
    ELSE "alfred"

\* A gate that denies only the turn that reaches the limit
GateAtLimitOnly(status, count) ==
    IF status = "active" THEN "alfred"
    ELSE IF status = "expired" THEN "expired"
    ELSE IF count = FreeTierLimit THEN "payment"
    ELSE "alfred"

\* lines 235-256: the branch taken for a status and a message count
Gate(status, count) ==
    IF status = "active" THEN "alfred"
    ELSE IF status = "expired" THEN "expired"
    ELSE IF count >= FreeTierLimit THEN "payment"
    ELSE "alfred"

\* A gate that records a sender it lets through as a subscriber
GateStatusPromotes(t) ==
    /\ th[t].pc = "gate_status"
    /\ \E st \in StatusResults(PhoneOf(th[t].sender), EmailOf(th[t].sender)) :
         LET r == Gate(st, th[t].count)
         IN  /\ th' = [th EXCEPT ![t].status = st, ![t].route = r,
                        ![t].pc = CASE r = "expired" -> "send_expired"
                                    [] r = "payment" -> "send_payment"
                                    [] OTHER -> IF th[t].first THEN "send_welcome"
                                                ELSE "get_thread"]
             /\ subscriptions' =
                    IF r = "alfred" /\ st # "active" /\ th[t].sender # Unknown
                    THEN save_user_subscription("active", PhoneOf(th[t].sender),
                                                EmailOf(th[t].sender))
                    ELSE subscriptions
    /\ UNCHANGED << apiVars, storeVars, modVars, stripeLast, messages, conversations, outbox, created,
                    nextThread, nextBot, turns >>

\* lines 231-256 and 298: look the status up, take the branch; inside
\* process_message_with_alfred a first message goes to the welcome flow.
GateStatus(t) ==
    /\ th[t].pc = "gate_status"
    /\ \E st \in StatusResults(PhoneOf(th[t].sender), EmailOf(th[t].sender)) :
         LET r == Gate(st, th[t].count)
         IN  th' = [th EXCEPT ![t].status = st, ![t].route = r,
                      ![t].pc = CASE r = "expired" -> "send_expired"
                                  [] r = "payment" -> "send_payment"
                                  [] OTHER -> IF th[t].first THEN "send_welcome"
                                              ELSE "get_thread"]
    /\ UNCHANGED << apiVars, storeVars, modVars, stripeLast, messages, conversations, subscriptions, outbox, created,
                    nextThread, nextBot, turns >>

\* A notice that is stored like an answer of the assistant
SendNoticeStored(t) ==
    /\ th[t].pc \in {"send_expired", "send_payment"}
    /\ outbox' = Send(th[t].chat,
                      IF th[t].pc = "send_expired" THEN "expired" ELSE "payment",
                      th[t].guid, th[t].turn)
    /\ nextBot' = nextBot + 1
    /\ messages' = save_message(messages, th[t].chat, BotSender,
                                BotGuid(nextBot + 1))
    /\ Return(t, "200")
    /\ UNCHANGED << apiVars, storeVars, modVars, stripeLast, conversations, subscriptions, created,
                    nextThread, turns >>

\* lines 241-251: the notice is sent and not stored
SendNotice(t) ==
    /\ th[t].pc \in {"send_expired", "send_payment"}
    /\ outbox' = Send(th[t].chat,
                      IF th[t].pc = "send_expired" THEN "expired" ELSE "payment",
                      th[t].guid, th[t].turn)
    /\ Return(t, "200")
    /\ UNCHANGED << apiVars, storeVars, modVars, stripeLast, messages, conversations, subscriptions, created,
                    nextThread, nextBot, turns >>

\* send_welcome_message, lines 266-273: the gateway returns a guid or None
SendWelcome(t) ==
    /\ th[t].pc = "send_welcome"
    /\ outbox' = Send(th[t].chat, "welcome", th[t].guid, th[t].turn)
    /\ \/ /\ nextBot' = nextBot + 1
          /\ th' = [th EXCEPT ![t].pc = "save_welcome",
                              ![t].sent = BotGuid(nextBot + 1)]
       \/ /\ nextBot' = nextBot
          /\ Return(t, "200")
    /\ UNCHANGED << apiVars, storeVars, modVars, stripeLast, messages, conversations, subscriptions, created,
                    nextThread, turns >>

\* lines 274-280 and 315-323: the sent text is stored under the gateway's guid
SaveOutbound(t) ==
    /\ th[t].pc \in {"save_welcome", "save_reply"}
    /\ messages' = save_message(messages, th[t].chat, BotSender, th[t].sent)
    /\ Return(t, IF SaveMessageRaises(messages, th[t].sent)
                 THEN "IntegrityError" ELSE "200")
    /\ UNCHANGED << apiVars, storeVars, modVars, stripeLast, conversations, subscriptions, outbox, created,
                    nextThread, nextBot, turns >>

----------------------------------------------------------------------------
(* Part 1c: donna/assistant/openai_client.py, create_assistant_response *)

\* A turn that never reuses the stored thread
NeedsNewThreadAlways(id) == TRUE

\* line 52: "if thread_id:" -- a thread is created when none is stored
NeedsNewThread(id) == id = NoThread

\* line 51: thread_id = get_thread_id(chat_guid)
GetThread(t) ==
    /\ th[t].pc = "get_thread"
    /\ LET id == get_thread_id(th[t].chat)
       IN  th' = [th EXCEPT ![t].thr = id, ![t].thr0 = id,
                    ![t].pc = IF NeedsNewThread(id) THEN "create" ELSE "retrieve"]
    /\ UNCHANGED << apiVars, storeVars, modVars, stripeLast, messages, conversations, subscriptions, outbox, created,
                    nextThread, nextBot, turns >>

\* line 53: openai.beta.threads.retrieve(thread_id)
RetrieveThread(t) ==
    /\ th[t].pc = "retrieve"
    /\ Goto(t, "add_message")
    /\ UNCHANGED << apiVars, storeVars, modVars, stripeLast, messages, conversations, subscriptions, outbox, created,
                    nextThread, nextBot, turns >>

\* line 55: openai.beta.threads.create()
CreateThread(t) ==
    /\ th[t].pc = "create"
    /\ nextThread' = nextThread + 1
    /\ created' = [created EXCEPT ![th[t].chat] = @ + 1]
    /\ th' = [th EXCEPT ![t].pc = "save_thread", ![t].thr = nextThread + 1]
    /\ UNCHANGED << apiVars, storeVars, modVars, stripeLast, messages, conversations, subscriptions, outbox,
                    nextBot, turns >>

\* A turn that creates the thread and goes on without storing its id
SaveThreadSkipped(t) ==
    /\ th[t].pc = "save_thread"
    /\ Goto(t, "add_message")
    /\ UNCHANGED << apiVars, storeVars, modVars, stripeLast, messages, conversations, subscriptions,
                    outbox, created, nextThread, nextBot, turns >>

\* line 56: save_thread_id(chat_guid, thread.id)
SaveThread(t) ==
    /\ th[t].pc = "save_thread"
    /\ conversations' = save_thread_id(th[t].chat, th[t].thr)
    /\ Goto(t, "add_message")
    /\ UNCHANGED << apiVars, storeVars, modVars, stripeLast, messages, subscriptions, outbox, created,
                    nextThread, nextBot, turns >>

\* lines 58-88: build the content and append it to the remote thread
AddMessage(t) ==
    /\ th[t].pc = "add_message"
    /\ Goto(t, "create_run")
    /\ UNCHANGED << apiVars, storeVars, modVars, stripeLast, messages, conversations, subscriptions, outbox, created,
                    nextThread, nextBot, turns >>

RunStatuses == {"in_progress", "completed", "failed"}
RunTerminal == {"completed", "failed"}

\* lines 90-92: openai.beta.threads.runs.create
CreateRun(t) ==
    /\ th[t].pc = "create_run"
    /\ th' = [th EXCEPT ![t].pc = "poll", ![t].run = "queued"]
    /\ UNCHANGED << apiVars, storeVars, modVars, stripeLast, messages, conversations, subscriptions, outbox, created,
                    nextThread, nextBot, turns >>

\* lines 95-99: while run.status != "completed": retrieve the run, sleep(1).
\* A run in a terminal status keeps it ("failed" stands for failed, expired
\* and cancelled); the loop has no other exit.
Poll(t) ==
    /\ th[t].pc = "poll"
    /\ th[t].run # "completed"
    /\ th[t].polls < MaxPolls
    /\ \E st \in RunStatuses :
         /\ th[t].run \in RunTerminal => st = th[t].run
         /\ th' = [th EXCEPT ![t].run = st, ![t].polls = @ + 1]
    /\ UNCHANGED << apiVars, storeVars, modVars, stripeLast, messages, conversations, subscriptions, outbox, created,
                    nextThread, nextBot, turns >>

\* lines 102-105: the newest message of the thread is the answer; it may or may
\* not contain STRIPE_PAYMENT_LINK
ListMessages(t) ==
    /\ th[t].pc = "poll"
    /\ th[t].run = "completed"
    /\ \E r \in {"plain", "link"} :
         th' = [th EXCEPT ![t].pc = "send_reply", ![t].resp = r,
                          ![t].polls = 0]
    /\ UNCHANGED << apiVars, storeVars, modVars, stripeLast, messages, conversations, subscriptions, outbox, created,
                    nextThread, nextBot, turns >>

\* An error path that also drops the thread stored for the conversation
RemoteRaisesForgetsThread(t) ==
    /\ th[t].pc \in {"retrieve", "create", "add_message", "create_run", "poll"}
    /\ th' = [th EXCEPT ![t].pc = "send_reply", ![t].resp = "apology",
                        ![t].polls = 0]
    /\ conversations' = {r \in conversations : r.chat # th[t].chat}
    /\ UNCHANGED << apiVars, storeVars, modVars, stripeLast, messages, subscriptions, outbox, created,
                    nextThread, nextBot, turns >>

\* lines 106-108: any exception of a remote call yields the fallback apology
RemoteRaises(t) ==
    /\ th[t].pc \in {"retrieve", "create", "add_message", "create_run", "poll"}
    /\ th' = [th EXCEPT ![t].pc = "send_reply", ![t].resp = "apology",
                        ![t].polls = 0]
    /\ UNCHANGED << apiVars, storeVars, modVars, stripeLast, messages, conversations, subscriptions, outbox, created,
                    nextThread, nextBot, turns >>

\* handlers.py lines 314-328: send the answer; store it when the gateway
\* returned a guid and the answer does not hold the payment link
SendReply(t) ==
    /\ th[t].pc = "send_reply"
    /\ outbox' = Send(th[t].chat, "reply", th[t].guid, th[t].turn)
    /\ \/ /\ nextBot' = nextBot + 1
          /\ IF th[t].resp # "link"
             THEN th' = [th EXCEPT ![t].pc = "save_reply",
                                   ![t].sent = BotGuid(nextBot + 1)]
             ELSE Return(t, "200")
       \/ /\ nextBot' = nextBot
          /\ Return(t, "200")
    /\ UNCHANGED << apiVars, storeVars, modVars, stripeLast, messages, conversations, subscriptions, created,
                    nextThread, turns >>

\* the request thread ends; the server hands the next delivery to a new one
Finish(t) ==
    /\ th[t].pc = "done"
    /\ th' = [th EXCEPT ![t] = Idle]
    /\ UNCHANGED << apiVars, storeVars, modVars, stripeLast, messages, conversations, subscriptions, outbox, created,
                    nextThread, nextBot, turns >>

----------------------------------------------------------------------------
(* Part 1d: handle_stripe_webhook and donna/payments/stripe_handler.py *)

\* handle_payment_intent_succeeded ("active") / handle_subscription_deleted
\* ("expired") for a customer with phone p and email e: write the status, then
\* notify the newest chat of that identity.  A customer without phone and email
\* makes save_user_subscription raise, which the handler swallows.
StripeWrite(st, p, e) ==
    /\ ~SubscriptionRaises(p, e)
    /\ subscriptions' = save_user_subscription(st, p, e)
    /\ LET c == find_latest_chat_guid(IF p # NULL THEN p ELSE e)
       IN  outbox' = IF c # NULL
                     THEN Send(c, IF st = "active" THEN "activation"
                                  ELSE "cancellation", NoGuid, turns + 1)
                     ELSE outbox

\* << customer.phone, customer.email >>
StripeCustomers == { << Phone, Email >>, << Phone, NULL >>, << NULL, Email >> }

\* The request number, the result of verify_stripe_signature and the status
\* answered
StripeOutcome(verified, code) ==
    [turn |-> turns + 1, verified |-> verified, http |-> code]
NoStripe == [turn |-> 0, verified |-> FALSE, http |-> NULL]

\* A handler that goes on to handle the event of a rejected request
StripeRejectedButHandled ==
    /\ stripeLast' = StripeOutcome(FALSE, "200")
    /\ \E st \in {"active", "expired"}, cu \in StripeCustomers :
         StripeWrite(st, cu[1], cu[2])

\* lines 93-97: verify_stripe_signature returned None (invalid payload or
\* invalid signature): answer 400 and return
StripeRejected ==
    /\ stripeLast' = StripeOutcome(FALSE, "400")
    /\ UNCHANGED << subscriptions, outbox >>

\* handle_stripe_webhook: a rejected signature, an event that writes nothing
\* (payment failed, unknown type, Customer.retrieve raising), or a status write
handle_stripe_webhook ==
    /\ turns < MaxTurns
    /\ turns' = turns + 1
    /\ \/ StripeRejected
       \/ /\ stripeLast' = StripeOutcome(TRUE, "200")
          /\ \/ UNCHANGED << subscriptions, outbox >>
             \/ \E st \in {"active", "expired"}, cu \in StripeCustomers :
                  StripeWrite(st, cu[1], cu[2])
    /\ UNCHANGED << apiVars, storeVars, modVars, th, messages, conversations, created,
                    nextThread, nextBot >>

----------------------------------------------------------------------------
(* Initial states and specifications of part 1 *)

\* Rows left in the store by earlier turns: one row of another conversation and,
\* for chat c: u inbound rows of the phone sender and
\* b stored answers.  Every turn stores its inbound row before any answer, so
\* b <= u.
HistRows(c, u, b) ==
    [i \in 1..(u + b) |->
        Row(c, IF i <= u THEN Phone ELSE BotSender, HistGuid(i))]

Half == FreeTierLimit \div 2

\* << inbound rows, stored answers, thread stored >> of the conversation
Histories ==
    { << 0, 0, FALSE >>, << 1, 1, FALSE >>,
      << Half - 1, Half - 1, TRUE >>, << Half, Half - 1, TRUE >>,
      << FreeTierLimit, FreeTierLimit, TRUE >> }

\* Rows of users.db written before the run: none, or the row of a payment
\* by a customer registered with a phone number
InitialSubscriptions ==
    { << >>, << SubRow(Phone, NULL, "active") >> }

NoRequest == [kind |-> NULL, chat |-> NULL, guid |-> NoGuid, dup |-> FALSE,
              sent |-> NULL, http |-> NULL]

ApiIdle ==
    /\ apiMessages = << >>
    /\ apiThreads = {}
    /\ apiUsers = {}
    /\ apiOutbox = EmptyBag
    /\ apiLast = NoRequest
    /\ apiPosts = 0

NoSave == [table |-> NULL, guid |-> NoGuid, conflict |-> FALSE]

StoreIdle ==
    /\ modMessages = << >>
    /\ lastSave = NoSave

NoClean == [op |-> NULL, chat |-> NULL, max |-> 0, types |-> 0, latest |-> 0,
            removed |-> {}, cleaned |-> FALSE]
NoRouting == [handlers |-> {}, raises |-> FALSE, found |-> NULL,
              result |-> [kind |-> NULL, name |-> NULL]]

NoContext == [raised |-> FALSE, summary |-> 0, preference |-> 0,
              sentiment |-> 0, notes |-> 0]
NoCall == [pc |-> "idle", call |-> 0, chat |-> NULL, first |-> FALSE,
           len |-> 0, pref |-> FALSE, provider |-> NULL, remote |-> NULL,
           assistant |-> NULL, seen |-> NoContext, context |-> NoContext,
           sends |-> << >>, wrote |-> << >>, rows0 |-> 0, bot0 |-> 0,
           mem0 |-> 0, summarized |-> FALSE, cleaned |-> FALSE]
NoTask == [task |-> NULL, ran |-> FALSE, out |-> NULL, wrote |-> << >>,
           returned |-> FALSE]

NoCommand == [call |-> 0, called |-> FALSE, text |-> << >>, sender |-> NULL,
              command |-> NULL, email |-> NULL, status |-> NULL,
              response |-> NULL, link |-> FALSE]
OAuthIdle == [pc |-> "idle", state |-> 0, late |-> FALSE, result |-> NULL,
              http |-> NULL]

\* No subscription command handled, no OAuth state token issued
AuxIdle ==
    /\ subRows = << >>
    /\ subLast = NoCommand
    /\ OAUTH_STATES = {}
    /\ oauthTh = [t \in Threads |-> OAuthIdle]
    /\ oauthIssued = 0
    /\ oauthLog = EmptyBag

\* messages.db without memory rows and without threads, the registry before
\* any message, no call of message_handler.py made
ModIdle ==
    /\ memory = {}
    /\ memClock = 0
    /\ memLast = NoClean
    /\ regLast = NoRouting
    /\ AuxIdle
    /\ mhThreads = {}
    /\ mhLast = NoCall
    /\ mhCalls = 0
    /\ exLast = NoTask

DonnaInit ==
    /\ th = [t \in Threads |-> Idle]
    /\ \E h \in Histories :
         /\ messages = << Row(OtherChat, Email, HistGuid(0)) >>
                        \o HistRows(Chat, h[1], h[2])
         /\ conversations = IF h[3] THEN {[chat |-> Chat, thread |-> 1]} ELSE {}
         /\ created = [c \in Chats |-> IF h[3] /\ c = Chat THEN 1 ELSE 0]
         /\ nextThread = IF h[3] THEN 1 ELSE 0
    /\ subscriptions \in InitialSubscriptions
    /\ outbox = EmptyBag
    /\ nextBot = 0
    /\ turns = 0
    /\ stripeLast = NoStripe

Init == DonnaInit /\ ApiIdle /\ StoreIdle /\ ModIdle

\* The steps of a request thread after do_POST
Run(t) ==
    \/ FirstCount(t)
    \/ SaveInbound(t)
    \/ GateCount(t)
    \/ GateStatus(t)
    \/ SendNotice(t)
    \/ SendWelcome(t)
    \/ SaveOutbound(t)
    \/ GetThread(t)
    \/ RetrieveThread(t)
    \/ CreateThread(t)
    \/ SaveThread(t)
    \/ AddMessage(t)
    \/ CreateRun(t)
    \/ Poll(t)
    \/ ListMessages(t)
    \/ RemoteRaises(t)
    \/ SendReply(t)
    \/ Finish(t)

Quiet == \A u \in Threads : th[u].pc = "idle"

\* Deliveries one at a time: the gateway sends the next webhook after the
\* response to the previous one.
Deliver ==
    /\ Quiet
    /\ do_POST("t1", {Chat, NULL}, Senders, Texts, Guids \cup {NoGuid})

StripeEvent == Quiet /\ handle_stripe_webhook

Next ==
    \/ Deliver
    \/ \E t \in Threads : Run(t)
    \/ StripeEvent

Spec == Init /\ [][Next]_vars

\* Concurrent deliveries: every request runs in a thread of its own
\* (ThreadedHTTPServer), for messages of the phone sender in one conversation.
DeliverConcurrently(t) == do_POST(t, {Chat}, {Phone}, {"hello"}, Guids)

NextConc ==
    \/ \E t \in Threads : DeliverConcurrently(t)
    \/ \E t \in Threads : Run(t)
    \/ handle_stripe_webhook

SpecConc == Init /\ [][NextConc]_vars

----------------------------------------------------------------------------
(* Part 2: src/api/webhook_handlers.py over src/database/db_manager.py.    *)
(* A request is handled in one step; the handler object is taken as built, *)
(* with its llm_manager and messaging_service in place.                    *)

\* db_manager.save_message: the INSERT runs inside try / except
\* sqlite3.IntegrityError: pass, so a conflicting insert is dropped silently.
dbm_save_message(tbl, c, s, g) ==
    IF GuidConflict(tbl, g) THEN tbl ELSE Append(tbl, Row(c, s, g))

\* db_manager.get_thread_id
dbm_get_thread_id(c) ==
    LET rows == {r \in apiThreads : r.chat = c}
    IN  IF rows = {} THEN NoThread ELSE (CHOOSE r \in rows : TRUE).thread

\* db_manager.check_subscription_status(phone_number=address): the row whose
\* phone_number is the address, subscription_active as a bool
dbm_check_subscription_status(address) ==
    address # "" /\ << "phone", address >> \in apiUsers

\* should_process_message: everything but our own messages
should_process_message(fromMe) == ~fromMe

\* process_message_with_assistant: the text it sends, by kind (NULL: none).
\* replied tells whether create_assistant_response gave a non-empty answer.
AssistantSend(c, address, replied) ==
    IF dbm_get_thread_id(c) = NoThread THEN "welcome"
    ELSE IF ~dbm_check_subscription_status(address) THEN "payment"
    ELSE IF replied THEN "reply"
    ELSE NULL

\* handle_new_message for a message.received event with chatGuid c, guid g,
\* handle.address a and isFromMe fromMe ("" stands for an absent field)
api_handle_new_message(c, g, a, fromMe, replied) ==
    IF c = "" \/ g = NoGuid
    THEN /\ apiLast' = [NoRequest EXCEPT !.kind = "message", !.http = "400"]
         /\ UNCHANGED << apiMessages, apiOutbox >>
    ELSE LET kind == IF should_process_message(fromMe)
                     THEN AssistantSend(c, a, replied) ELSE NULL
         IN  /\ apiMessages' = dbm_save_message(apiMessages, c, a, g)
             /\ apiOutbox' = IF kind = NULL THEN apiOutbox
                             ELSE apiOutbox (+) SetToBag({Sent(c, kind, g,
                                                                apiPosts + 1)})
             /\ apiLast' = [kind |-> "message", chat |-> c, guid |-> g,
                            dup |-> GuidConflict(apiMessages, g),
                            sent |-> kind, http |-> "200"]

\* MessageWebhookHandler.do_POST: a request that is no message.received event
\* (400 for an unsupported Content-Type, invalid JSON or a missing type; 200
\* for another event type), or a message event
api_do_POST ==
    /\ apiPosts < MaxApiPosts
    /\ apiPosts' = apiPosts + 1
    /\ \/ /\ \E code \in {"400", "200"} :
               apiLast' = [NoRequest EXCEPT !.kind = "other", !.http = code]
          /\ UNCHANGED << apiMessages, apiOutbox >>
       \/ \E c \in {Chat, OtherChat, ""}, g \in Guids \cup {NoGuid},
             a \in {Phone, Unknown}, fromMe \in BOOLEAN, replied \in BOOLEAN :
               api_handle_new_message(c, g, a, fromMe, replied)
    /\ UNCHANGED << donnaVars, storeVars, modVars, apiThreads, apiUsers >>

\* db_manager.save_user_subscription(status, phone_number, email): upsert of
\* the row keyed by the phone number, or by the email without phone number
dbm_save_user_subscription(active, p, e) ==
    LET key == IF p # NULL THEN << "phone", p >> ELSE << "email", e >>
    IN  IF p = NULL /\ e = NULL THEN apiUsers
        ELSE IF active THEN apiUsers \cup {key} ELSE apiUsers \ {key}

\* db_manager.find_latest_chat_guid: newest row whose sender holds the identifier
dbm_find_latest_chat_guid(ident) ==
    LET hit == {i \in DOMAIN apiMessages : apiMessages[i].sender = ident}
    IN  IF hit = {} THEN NULL
        ELSE apiMessages[CHOOSE i \in hit : \A j \in hit : j <= i].chat

\* StripeWebhookHandler.do_POST for payment_intent.succeeded (active) and
\* customer.subscription.deleted: write the status, text the customer's chat
api_stripe_do_POST ==
    /\ apiPosts < MaxApiPosts
    /\ apiPosts' = apiPosts + 1
    /\ \E active \in BOOLEAN, p \in {Phone, NULL}, e \in {Email, NULL} :
         LET c == IF p = NULL THEN NULL ELSE dbm_find_latest_chat_guid(p)
         IN  /\ apiUsers' = dbm_save_user_subscription(active, p, e)
             /\ apiOutbox' = IF c = NULL THEN apiOutbox
                  ELSE apiOutbox (+) SetToBag({Sent(c,
                         IF active THEN "activation" ELSE "deactivation",
                         NoGuid, apiPosts + 1)})
    /\ apiLast' = [NoRequest EXCEPT !.kind = "stripe", !.http = "200"]
    /\ UNCHANGED << donnaVars, storeVars, modVars, apiMessages, apiThreads >>

\* The conversations table is read by this handler and written by none of its
\* code; a deployment may start on a database that holds a thread for a chat.
ApiInit ==
    /\ apiMessages = << >>
    /\ apiThreads \in { {}, {[chat |-> Chat, thread |-> 1]} }
    /\ apiUsers = {}
    /\ apiOutbox = EmptyBag
    /\ apiLast = NoRequest
    /\ apiPosts = 0

DonnaIdle ==
    /\ th = [t \in Threads |-> Idle]
    /\ messages = << >>
    /\ conversations = {}
    /\ created = [c \in Chats |-> 0]
    /\ nextThread = 0
    /\ subscriptions = << >>
    /\ outbox = EmptyBag
    /\ nextBot = 0
    /\ turns = 0
    /\ stripeLast = NoStripe

InitApi == DonnaIdle /\ ApiInit /\ StoreIdle /\ ModIdle

NextApi == api_do_POST \/ api_stripe_do_POST

SpecApi == InitApi /\ [][NextApi]_vars

----------------------------------------------------------------------------
(* Part 3: the save_message variants on bare stores.  Every call is one     *)
(* INSERT on a connection of its own, so calls of different request threads *)
(* take effect one after the other, in any order.                           *)

\* A save_message that inserts whatever it is given
mod_save_message_plain(tbl, c, s, g) == Append(tbl, Row(c, s, g))

\* src/modules/database.py save_message: INSERT OR IGNORE
mod_save_message(tbl, c, s, g) ==
    IF GuidConflict(tbl, g) THEN tbl ELSE Append(tbl, Row(c, s, g))

StoreRows == Len(messages) + Len(modMessages) + Len(apiMessages)

\* donna/database/models.py save_message, called by any thread
DonnaSave ==
    /\ StoreRows < MaxStoreRows
    /\ \E c \in Chats, g \in Guids \cup {NoGuid} :
         /\ messages' = save_message(messages, c, Phone, g)
         /\ lastSave' = [table |-> "donna", guid |-> g,
                         conflict |-> SaveMessageRaises(messages, g)]
    /\ UNCHANGED << th, conversations, subscriptions, outbox, created,
                    nextThread, nextBot, turns, stripeLast, apiVars,
                    modMessages, modVars >>

\* src/modules/database.py save_message, called by any thread
ModulesSave ==
    /\ StoreRows < MaxStoreRows
    /\ \E c \in Chats, g \in Guids \cup {NoGuid} :
         /\ modMessages' = mod_save_message(modMessages, c, Phone, g)
         /\ lastSave' = [table |-> "modules", guid |-> g,
                         conflict |-> GuidConflict(modMessages, g)]
    /\ UNCHANGED << donnaVars, apiVars, modVars >>

\* src/database/db_manager.py save_message, called by any thread
DbManagerSave ==
    /\ StoreRows < MaxStoreRows
    /\ \E c \in Chats, g \in Guids \cup {NoGuid} :
         /\ apiMessages' = dbm_save_message(apiMessages, c, Phone, g)
         /\ lastSave' = [table |-> "db_manager", guid |-> g,
                         conflict |-> GuidConflict(apiMessages, g)]
    /\ UNCHANGED << donnaVars, apiThreads, apiUsers, apiOutbox, apiLast,
                    apiPosts, modMessages, modVars >>

InitStore == DonnaIdle /\ ApiIdle /\ StoreIdle /\ ModIdle

NextStore == DonnaSave \/ ModulesSave \/ DbManagerSave

SpecStore == InitStore /\ [][NextStore]_vars

----------------------------------------------------------------------------
(* Part 4: src/modules/memory.py on the memory table of messages.db *)

SummaryKeep == 5

MemTypes == {"summary", "key_info"}

\* The seconds in which the save_memory calls of a run fall
MemSeconds == {0, 1}

\* The values of max_memories passed to clean_up_memories
MaxMemoriesArgs == 0..4

\* << chat_guid, memory_type >> of the save_memory calls followed
MemKeys == ({Chat} \X MemTypes) \cup { << OtherChat, "summary" >> }

MemRow(id, c, ty, ts) == [id |-> id, chat |-> c, type |-> ty, ts |-> ts]

\* id INTEGER PRIMARY KEY: the rowid after the largest one in the table
NextMemId ==
    IF memory = {} THEN 1
    ELSE (CHOOSE i \in {r.id : r \in memory} :
             \A r \in memory : r.id <= i) + 1

\* save_memory: INSERT with timestamp DEFAULT CURRENT_TIMESTAMP (now)
save_memory(c, ty, now) == memory \cup {MemRow(NextMemId, c, ty, now)}

MemRowsOf(c, ty) == {r \in memory : r.chat = c /\ r.type = ty}

\* line 146-150: SELECT DISTINCT memory_type ... WHERE chat_guid = ?
MemTypesOf(c) == {r.type : r \in {x \in memory : x.chat = c}}

\* A clean-up that gives every type the whole of max_memories
KeepLimitUndivided(ty, max, T) ==
    IF ty = "summary" THEN SummaryKeep ELSE max

\* lines 155-181: LIMIT 5 for summaries, LIMIT max_memories // len(memory_types)
\* for the other types
KeepLimit(ty, max, T) ==
    IF ty = "summary" THEN SummaryKeep ELSE max \div T

\* K is a possible result of "SELECT id ... ORDER BY timestamp DESC LIMIT k" on
\* the rows S: k rows (all of S when S has fewer, or when k is negative), none
\* older than a row left out.  Rows of the same second come in any order.
IsNewest(K, S, k) ==
    /\ K \subseteq S
    /\ IF k < 0 \/ k >= Cardinality(S) THEN K = S ELSE Cardinality(K) = k
    /\ \A a \in K, b \in S \ K : a.ts >= b.ts

\* clean_up_memories(chat_guid, max_memories): M is a table the call can leave
clean_up_memories(c, max, M) ==
    LET T == Cardinality(MemTypesOf(c))
    IN  /\ M \subseteq memory
        /\ \A r \in memory : r.chat # c => r \in M
        /\ \A ty \in MemTypesOf(c) :
              IsNewest(M \cap MemRowsOf(c, ty), MemRowsOf(c, ty),
                       KeepLimit(ty, max, T))

\* id of the summary of chat c written last (0: the chat has none)
LatestSummary(c) ==
    IF MemRowsOf(c, "summary") = {} THEN 0
    ELSE CHOOSE i \in {r.id : r \in MemRowsOf(c, "summary")} :
            \A r \in MemRowsOf(c, "summary") : r.id <= i

\* A save_memory call of the history before the clean-up, in the second of the
\* call before it or one second later
SaveMemory ==
    /\ Cardinality(memory) < MaxMemRows
    /\ ~memLast.cleaned
    /\ \E k \in MemKeys, now \in {memClock, memClock + 1} :
         /\ now \in MemSeconds
         /\ memClock' = now
         /\ memory' = save_memory(k[1], k[2], now)
         /\ memLast' = [NoClean EXCEPT !.op = "save", !.chat = k[1]]
    /\ UNCHANGED << donnaVars, apiVars, storeVars, regLast, auxVars, mhVars >>

\* A clean_up_memories call, the one call of the run
CleanUpMemories ==
    /\ ~memLast.cleaned
    /\ \E c \in Chats, max \in MaxMemoriesArgs, M \in SUBSET memory :
         /\ clean_up_memories(c, max, M)
         /\ memory' = M
         /\ memLast' = [op |-> "clean", chat |-> c, max |-> max,
                        types |-> Cardinality(MemTypesOf(c)),
                        latest |-> LatestSummary(c),
                        removed |-> {r.type : r \in memory \ M},
                        cleaned |-> TRUE]
    /\ UNCHANGED << donnaVars, apiVars, storeVars, memClock, regLast, auxVars, mhVars >>

InitMem == DonnaIdle /\ ApiIdle /\ StoreIdle /\ ModIdle

NextMem == SaveMemory \/ CleanUpMemories

SpecMem == InitMem /\ [][NextMem]_vars

\* Clean-up of a table that holds many memory types.  The types are those
\* the program writes: summaries, sentiment and preference records, and the
\* per-key types "entity_<key>" of extract_entities.
TableTypes == << "summary", "sentiment", "user_preference", "entity_name" >>

\* Rows per type in the table before the clean-up: no summary or one more
\* than the clean-up keeps, and up to two rows of every other type
TableCounts ==
    { n \in [1..Len(TableTypes) -> 0..(SummaryKeep + 1)] :
        /\ n[1] \in {0, SummaryKeep + 1}
        /\ \A i \in 2..Len(TableTypes) : n[i] <= 2 }

RECURSIVE RowsBefore(_, _)
RowsBefore(n, i) == IF i = 0 THEN 0 ELSE n[i] + RowsBefore(n, i - 1)

\* The table of chat c written by save_memory calls type after type, two
\* calls falling in every second
TableOf(c, n) ==
    UNION { { MemRow(RowsBefore(n, i - 1) + k, c, TableTypes[i],
                     (RowsBefore(n, i - 1) + k) \div 2) : k \in 1..n[i] } :
            i \in 1..Len(TableTypes) }

InitTable ==
    /\ DonnaIdle /\ ApiIdle /\ StoreIdle
    /\ \E n \in TableCounts : memory = TableOf(Chat, n)
    /\ memClock = 0
    /\ memLast = NoClean
    /\ regLast = NoRouting
    /\ AuxIdle
    /\ mhThreads = {}
    /\ mhLast = NoCall
    /\ mhCalls = 0
    /\ exLast = NoTask

NextTable == CleanUpMemories

SpecTable == InitTable /\ [][NextTable]_vars

----------------------------------------------------------------------------
(* Part 5: src/modules/integrations, IntegrationRegistry *)

\* get_name() of the integrations, in the order __init__.py registers them
Registered == << "Email", "Calendar", "Ride Sharing", "Food Delivery",
                 "Slack/Teams", "Discord" >>

\* register: self.integrations[name] = integration.  A dict keeps the keys in
\* the order of their first insertion; a name registered again keeps its place.
register(reg, name) ==
    IF \E i \in DOMAIN reg : reg[i] = name THEN reg ELSE Append(reg, name)

RECURSIVE RegisterAll(_, _)
RegisterAll(reg, names) ==
    IF names = << >> THEN reg
    ELSE RegisterAll(register(reg, Head(names)), Tail(names))

\* registry.integrations after the package is imported
registry == RegisterAll(<< >>, Registered)

\* A look-up that keeps the last match of the loop
find_last_integration_for_message(handlers) ==
    LET hit == {i \in DOMAIN registry : registry[i] \in handlers}
    IN  IF hit = {} THEN NULL
        ELSE registry[CHOOSE i \in hit : \A j \in hit : j <= i]

\* find_integration_for_message: the first integration, in the order of
\* self.integrations.values(), whose can_handle(message) is true.  handlers is
\* the set of integrations whose can_handle accepts the message.
find_integration_for_message(handlers) ==
    LET hit == {i \in DOMAIN registry : registry[i] \in handlers}
    IN  IF hit = {} THEN NULL
        ELSE registry[CHOOSE i \in hit : \A j \in hit : i <= j]

\* process_message: None without integration, else what integration.process
\* returns; an exception of process is not caught here.
process_message(handlers, raises) ==
    LET found == find_integration_for_message(handlers)
    IN  IF found = NULL THEN [kind |-> "none", name |-> NULL]
        ELSE IF raises THEN [kind |-> "exception", name |-> found]
        ELSE [kind |-> "text", name |-> found]

\* registry.process_message(user_id, message) for a message accepted by the
\* integrations in handlers, whose process call raises or not
RouteMessage ==
    /\ \E handlers \in SUBSET {Registered[i] : i \in DOMAIN Registered},
          raises \in BOOLEAN :
         regLast' = [handlers |-> handlers, raises |-> raises,
                     found |-> find_integration_for_message(handlers),
                     result |-> process_message(handlers, raises)]
    /\ UNCHANGED << donnaVars, apiVars, storeVars, memory, memClock, memLast,
                    mhVars, auxVars >>

InitReg == DonnaIdle /\ ApiIdle /\ StoreIdle /\ ModIdle

NextReg == RouteMessage

SpecReg == InitReg /\ [][NextReg]_vars

----------------------------------------------------------------------------
(* Part 6: src/modules/message_handler.py, process_message_with_alfred and  *)
(* create_alfred_response, with the extraction tasks of memory.py.  The     *)
(* model provider (llm_providers.py) is known by what a generate_response   *)
(* call can do: return a text or raise.                                     *)

\* Outcomes of the generate_response call of each task, by what json.loads
\* and the code after it make of the returned text
SentimentOutcomes == {"raises", "malformed", "not_object", "neutral", "negative"}
EntityOutcomes == {"raises", "malformed", "not_list", "empty", "one", "mixed"}
PreferenceOutcomes == {"raises", "none", "text"}
SummaryOutcomes == {"raises", "text"}

\* analyze_user_sentiment: the memory types it writes.  Text that is no JSON
\* is replaced by a fallback dict, which is saved; JSON that is no object is
\* saved before sentiment_data.get raises inside the try.
analyze_user_sentiment(len, out) ==
    IF len < SentimentMinLen THEN << >>
    ELSE CASE out = "raises" -> << >>
           [] out = "negative" -> << "sentiment", "important_note" >>
           [] OTHER -> << "sentiment" >>

\* extract_entities: one record per key of every entity of the list; a list
\* whose second element is no object ("mixed") raises after the first entity
\* is saved
extract_entities(len, out) ==
    IF len <= EntityMinLen THEN << >>
    ELSE IF out \in {"one", "mixed"} THEN << "entity_name" >>
    ELSE << >>

\* extract_user_preferences: pref tells whether the message holds a keyword
extract_user_preferences(pref, out) ==
    IF pref /\ out = "text" THEN << "user_preference" >> ELSE << >>

\* create_conversation_summary on a conversation of n stored messages
create_conversation_summary(n, out) ==
    IF n = 0 \/ out = "raises" THEN << >> ELSE << "summary" >>

\* id INTEGER PRIMARY KEY of a table mem
NextIdOf(mem) ==
    IF mem = {} THEN 1
    ELSE (CHOOSE i \in {r.id : r \in mem} : \A r \in mem : r.id <= i) + 1

\* save_memory called once for every type of tys, in order
RECURSIVE save_memories(_, _, _, _)
save_memories(mem, c, tys, now) ==
    IF tys = << >> THEN mem
    ELSE save_memories(mem \cup {MemRow(NextIdOf(mem), c, Head(tys), now)},
                       c, Tail(tys), now)

\* What the model provider does during one call of the handler, task by task
ProviderRuns ==
    { [sentiment |-> "neutral", entities |-> "one", preference |-> "text",
       summary |-> "text"],
      [sentiment |-> "raises", entities |-> "raises", preference |-> "raises",
       summary |-> "raises"],
      [sentiment |-> "malformed", entities |-> "malformed",
       preference |-> "text", summary |-> "text"] }

\* len(message_text) and whether the text holds a preference keyword
MhTexts == { [len |-> 2, pref |-> FALSE], [len |-> 10, pref |-> FALSE],
             [len |-> 60, pref |-> TRUE] }

\* The remote calls of create_alfred_response: the run completes and the
\* answer comes ("ok"), comes with the payment link in it ("payment"), or a
\* remote call raises before the thread is known ("raises_early") or after
\* it.  A poll loop that never ends is a call that never returns; it is not
\* followed here.
AssistantOutcomes == {"ok", "payment", "raises_early", "raises"}

\* memory.get_memories(chat_guid): the rows of the chat, as dicts with the
\* keys id, memory_type, content, timestamp (the newest 10 of them; the
\* tables followed hold fewer)
get_memories(mem, c) == {r \in mem : r.chat = c}

\* id of the newest row of type ty among the rows S (0: none)
NewestOf(S, ty) ==
    LET T == {r \in S : r.type = ty}
    IN  IF T = {} THEN 0
        ELSE CHOOSE i \in {r.id : r \in T} : \A r \in T : r.id <= i

\* What the newest records of the rows S are: the content a context block
\* built from S is measured against
NewestRecords(S) ==
    [raised |-> FALSE, summary |-> NewestOf(S, "summary"),
     preference |-> NewestOf(S, "user_preference"),
     sentiment |-> NewestOf(S, "sentiment"),
     notes |-> Cardinality({r \in S : r.type = "important_note"})]

\* create_alfred_response, lines 184-231: "for mem_type, mem_content, _ in
\* memories" unpacks every row, a dict of four keys, into three names, which
\* raises ValueError at the first row.  The context block is built only from
\* an empty list, and is empty then.
memory_context(seen) ==
    IF seen = {} THEN NoContext ELSE [NoContext EXCEPT !.raised = TRUE]

\* create_alfred_response: how the call ends, given what its remote calls do
\* and the rows get_memories returns.  The thread is retrieved or created
\* (lines 173-178) before the memories are read; an exception raised later
\* ends in the except branch, which returns the apology.
create_alfred_response(remote, seen) ==
    IF remote = "raises_early" THEN "raises_early"
    ELSE IF memory_context(seen).raised THEN "raises"
    ELSE remote

\* A first-message branch that goes on to the extraction tasks
process_message_writes_all(first, txt, run) ==
    (IF first THEN << "summary" >> ELSE << >>)
    \o (IF txt.len >= SentimentMinLen
        THEN analyze_user_sentiment(txt.len, run.sentiment) ELSE << >>)
    \o extract_entities(txt.len, run.entities)
    \o extract_user_preferences(txt.pref, run.preference)

\* process_message_with_alfred, lines 47-70: the memory types written before
\* create_alfred_response is called
process_message_writes(first, txt, run) ==
    IF first THEN << "summary" >>
    ELSE (IF txt.len >= SentimentMinLen
          THEN analyze_user_sentiment(txt.len, run.sentiment) ELSE << >>)
         \o extract_entities(txt.len, run.entities)
         \o extract_user_preferences(txt.pref, run.preference)

\* create_alfred_response, lines 304-306: the summary is due when the call
\* got its answer and the count of stored messages is a multiple of 10
SummaryDue(tbl, c, assistant) ==
    /\ assistant \in {"ok", "payment"}
    /\ CountRows(tbl, c) % SummaryEvery = 0

\* create_alfred_response, lines 173-178: the thread row after the call
alfred_thread(c, assistant, n) ==
    IF (\E r \in mhThreads : r.chat = c) \/ assistant = "raises_early"
    THEN mhThreads
    ELSE mhThreads \cup {[chat |-> c, thread |-> n]}

\* Stored answers of the bot in chat c of a table
CountBot(tbl, c) ==
    Cardinality({i \in DOMAIN tbl :
                    tbl[i].chat = c /\ tbl[i].sender = BotSender})

\* One turn up to line 92: the caller stores the inbound message
\* (http_handlers.py, line 68) and calls process_message_with_alfred with the
\* isFirstMessage flag of the payload.  send_text returns a guid (sendOk) or None.
MhProcess ==
    /\ mhLast.pc = "idle"
    /\ mhCalls < MaxCalls
    /\ mhCalls' = mhCalls + 1
    /\ \E first \in BOOLEAN, txt \in MhTexts, run \in ProviderRuns,
          remote \in AssistantOutcomes, sendOk \in BOOLEAN,
          now \in {memClock, memClock + 1} :
         LET n == mhCalls + 1
             inbound == mod_save_message(modMessages, Chat, Phone, InGuid(n))
             before == process_message_writes(first, txt, run)
             seen == get_memories(save_memories(memory, Chat, before, now),
                                  Chat)
             assistant == create_alfred_response(remote, seen)
             due == ~first /\ SummaryDue(inbound, Chat, assistant)
             wrote == before
                      \o (IF due
                          THEN create_conversation_summary(
                                   CountRows(inbound, Chat), run.summary)
                          ELSE << >>)
             kind == IF first THEN "welcome"
                     ELSE IF assistant = "ok" THEN "reply"
                     ELSE IF assistant = "payment" THEN "payment"
                     ELSE "apology"
         IN  /\ now \in MemSeconds
             /\ memClock' = now
             /\ modMessages' =
                    IF sendOk /\ kind # "payment"
                    THEN mod_save_message(inbound, Chat, BotSender, BotGuid(n))
                    ELSE inbound
             /\ memory' = save_memories(memory, Chat, wrote, now)
             /\ mhThreads' = IF first THEN mhThreads
                             ELSE alfred_thread(Chat, assistant, n)
             /\ mhLast' = [pc |-> IF first THEN "idle" ELSE "cleanup",
                           call |-> n, chat |-> Chat, first |-> first,
                           len |-> txt.len, pref |-> txt.pref,
                           provider |-> IF first THEN NULL ELSE run.sentiment,
                           remote |-> IF first THEN NULL ELSE remote,
                           assistant |-> IF first THEN NULL ELSE assistant,
                           seen |-> IF first \/ remote = "raises_early"
                                    THEN NoContext ELSE NewestRecords(seen),
                           context |-> IF first \/ remote = "raises_early"
                                       THEN NoContext
                                       ELSE memory_context(seen),
                           sends |-> IF first THEN << "contact", kind >>
                                     ELSE << kind >>,
                           wrote |-> wrote,
                           rows0 |-> CountRows(modMessages, Chat),
                           bot0 |-> CountBot(modMessages, Chat),
                           mem0 |-> Cardinality(memory),
                           summarized |-> due, cleaned |-> FALSE]
    /\ UNCHANGED << donnaVars, apiVars, lastSave, memLast, regLast, auxVars, exLast >>

\* The tables clean_up_memories(c, max) can leave: the table itself when no
\* type holds more rows than its limit
CleanUpResults(c, max) ==
    IF \A ty \in MemTypesOf(c) :
          LET k == KeepLimit(ty, max, Cardinality(MemTypesOf(c)))
          IN  k < 0 \/ Cardinality(MemRowsOf(c, ty)) <= k
    THEN {memory}
    ELSE {M \in SUBSET memory : clean_up_memories(c, max, M)}

\* lines 95-97: count the stored messages, clean up at a multiple of 50
MhCleanUp ==
    /\ mhLast.pc = "cleanup"
    /\ IF CountRows(modMessages, mhLast.chat) % CleanUpEvery = 0
       THEN /\ memory' \in CleanUpResults(mhLast.chat, DefaultMaxMemories)
            /\ mhLast' = [mhLast EXCEPT !.pc = "idle", !.cleaned = TRUE]
       ELSE /\ memory' = memory
            /\ mhLast' = [mhLast EXCEPT !.pc = "idle"]
    /\ UNCHANGED << donnaVars, apiVars, storeVars, memClock, memLast, regLast, auxVars,
                    mhThreads, mhCalls, exLast >>

\* << inbound rows, stored answers >> of the conversation before the run: a
\* new conversation; one whose welcome could not be sent and whose other
\* turns were all answered and stored; ones whose turns were all answered and
\* stored.
MhHistories ==
    { << 0, 0 >>,
      << SummaryEvery \div 2, SummaryEvery \div 2 - 1 >>,
      << SummaryEvery - 1, SummaryEvery - 1 >>,
      << CleanUpEvery \div 2 - 1, CleanUpEvery \div 2 - 1 >> }

InitTurn ==
    /\ DonnaIdle /\ ApiIdle
    /\ \E h \in MhHistories :
         /\ modMessages = HistRows(Chat, h[1], h[2])
         /\ mhThreads = IF h[1] > 0 THEN {[chat |-> Chat, thread |-> 0]} ELSE {}
    /\ lastSave = NoSave
    /\ memory = {}
    /\ memClock = 0
    /\ memLast = NoClean
    /\ regLast = NoRouting
    /\ AuxIdle
    /\ mhLast = NoCall
    /\ mhCalls = 0
    /\ exLast = NoTask

NextTurn == MhProcess \/ MhCleanUp

SpecTurn == InitTurn /\ [][NextTurn]_vars

\* One call of an extraction task on a conversation that holds messages
ExtractionCall(task, ran, out, tys) ==
    /\ mhCalls < MaxCalls
    /\ mhCalls' = mhCalls + 1
    /\ \E now \in {memClock, memClock + 1} :
         /\ now \in MemSeconds
         /\ memClock' = now
         /\ memory' = save_memories(memory, Chat, tys, now)
    /\ exLast' = [task |-> task, ran |-> ran, out |-> out, wrote |-> tys,
                  returned |-> TRUE]
    /\ UNCHANGED << donnaVars, apiVars, storeVars, memLast, regLast, auxVars, mhThreads,
                    mhLast >>

AnalyzeUserSentiment ==
    \E txt \in MhTexts, out \in SentimentOutcomes :
        ExtractionCall("analyze_user_sentiment", txt.len >= SentimentMinLen,
                       out, analyze_user_sentiment(txt.len, out))

ExtractEntities ==
    \E txt \in MhTexts, out \in EntityOutcomes :
        ExtractionCall("extract_entities", txt.len > EntityMinLen, out,
                       extract_entities(txt.len, out))

ExtractUserPreferences ==
    \E txt \in MhTexts, out \in PreferenceOutcomes :
        ExtractionCall("extract_user_preferences", txt.pref, out,
                       extract_user_preferences(txt.pref, out))

CreateConversationSummary ==
    \E out \in SummaryOutcomes :
        ExtractionCall("create_conversation_summary",
                       CountRows(modMessages, Chat) > 0, out,
                       create_conversation_summary(
                           CountRows(modMessages, Chat), out))

InitExtract ==
    /\ DonnaIdle /\ ApiIdle /\ ModIdle
    /\ modMessages \in { << >>, HistRows(Chat, 1, 1) }
    /\ lastSave = NoSave

NextExtract ==
    \/ AnalyzeUserSentiment
    \/ ExtractEntities
    \/ ExtractUserPreferences
    \/ CreateConversationSummary

SpecExtract == InitExtract /\ [][NextExtract]_vars

----------------------------------------------------------------------------
(* Part 7: src/modules/subscription_manager.py, the subscription commands  *)
(* of a message (http_handlers.py, lines 71-72).  A message text is a      *)
(* sequence of word pieces, cut so that one command is a substring of      *)
(* another text exactly when its pieces are a run of the other's pieces.   *)

Command(name, pieces) == [name |-> name, pieces |-> pieces]

\* SUBSCRIPTION_COMMANDS, in the order of the list
SUBSCRIPTION_COMMANDS ==
    << Command("subscribe", << "subscribe" >>),
       Command("unsubscribe", << "un", "subscribe" >>),
       Command("cancel", << "cancel" >>),
       Command("subscription status", << "subscription", " ", "status" >>),
       Command("upgrade", << "up", "grade" >>),
       Command("downgrade", << "down", "grade" >>) >>

\* str.lower() on a piece
Lower(piece) ==
    CASE piece = "Cancel" -> "cancel"
      [] piece = "Un" -> "un"
      [] OTHER -> piece

message_lower(m) == [i \in DOMAIN m |-> Lower(m[i])]

\* "w in m" of Python for two texts
Contains(w, m) ==
    \E i \in 0..(Len(m) - Len(w)) : \A j \in 1..Len(w) : m[i + j] = w[j]

\* The message texts followed, with the e-mail address the regular expression
\* of line 84 finds in them
CommandTexts ==
    { [pieces |-> x, email |-> e] :
        x \in { << "subscribe" >>, << "un", "subscribe" >>,
                << "Un", "subscribe" >>, << "cancel" >>,
                << "please", " ", "Cancel" >>,
                << "subscription", " ", "status" >>,
                << "up", "grade" >>, << "down", "grade" >>, << "hello" >> },
        e \in {NULL, Email} }

\* is_subscription_command, lines 49-55
is_subscription_command(m) ==
    \E i \in DOMAIN SUBSCRIPTION_COMMANDS :
        Contains(SUBSCRIPTION_COMMANDS[i].pieces, message_lower(m))

\* extract_subscription_info, lines 69-74: the first command of the list that
\* is a substring of the lowered text
extract_command(m) ==
    LET hit == {i \in DOMAIN SUBSCRIPTION_COMMANDS :
                   Contains(SUBSCRIPTION_COMMANDS[i].pieces, message_lower(m))}
    IN  IF hit = {} THEN NULL
        ELSE SUBSCRIPTION_COMMANDS[
                 CHOOSE i \in hit : \A j \in hit : i <= j].name

ModSubRow(st, p, e, ts) == [status |-> st, phone |-> p, email |-> e, ts |-> ts]

\* database.check_subscription_status(email=email): no lookup without an
\* address; else the status of the row written last for the e-mail, any of
\* the rows of the newest second
mod_check_subscription_status(e) ==
    LET hit == {i \in DOMAIN subRows : subRows[i].email = e}
        top == {i \in hit : \A j \in hit : subRows[j].ts <= subRows[i].ts}
    IN  IF e = NULL \/ hit = {} THEN {NULL}
        ELSE {subRows[i].status : i \in top}

\* handle_subscription_command, lines 132-177: the response for a command and
\* a current status.  A text without command fails at line 167 ("in None").
subscription_response(command, status) ==
    CASE command \in {"subscribe", "upgrade"} ->
             IF status = "active" THEN "already_active" ELSE "offer"
      [] command \in {"unsubscribe", "cancel"} ->
             IF status # "active" THEN "not_active" ELSE "cancelled"
      [] command = NULL -> "TypeError"
      [] command = "subscription status" ->
             IF status = "active" THEN "status_active"
             ELSE IF status = "cancelled" THEN "status_cancelled"
             ELSE "status_none"
      [] OTHER -> "not_understood"

\* http_handlers.py, lines 71-72 with handle_subscription_command: the e-mail
\* is the one of the text, else the sender when it holds an "@"
HandleSubscriptionCommand ==
    /\ subLast.call < MaxCommands
    /\ \E m \in CommandTexts, sender \in {Email, Phone},
          now \in {memClock, memClock + 1} :
         LET email == IF m.email # NULL THEN m.email
                      ELSE IF sender = Email THEN sender ELSE NULL
             command == extract_command(m.pieces)
         IN  /\ now \in MemSeconds
             /\ memClock' = now
             /\ IF ~is_subscription_command(m.pieces)
                THEN /\ subLast' = [NoCommand EXCEPT !.call = subLast.call + 1,
                                       !.text = m.pieces, !.sender = sender]
                     /\ UNCHANGED << subRows, memory >>
                ELSE \E st \in mod_check_subscription_status(email) :
                       LET r == subscription_response(command, st)
                       IN  /\ subRows' =
                                 IF r = "cancelled"
                                 THEN Append(subRows,
                                        ModSubRow("cancelled", NULL, email, now))
                                 ELSE subRows
                           /\ memory' =
                                 IF r = "offer"
                                 THEN save_memory(Chat, "subscription_intent",
                                                  now)
                                 ELSE memory
                           /\ subLast' = [call |-> subLast.call + 1,
                                          called |-> TRUE, text |-> m.pieces,
                                          sender |-> sender,
                                          command |-> command,
                                          email |-> email, status |-> st,
                                          response |-> r,
                                          link |-> (r = "offer")]
    /\ UNCHANGED << donnaVars, apiVars, storeVars, memLast, regLast, mhVars,
                    oauthVars >>

\* The subscriptions written before the run: none, or the payment of a
\* customer known by e-mail or by phone number
InitCommands ==
    /\ DonnaIdle /\ ApiIdle /\ StoreIdle
    /\ subRows \in { << >>, << ModSubRow("active", NULL, Email, 0) >>,
                     << ModSubRow("active", Phone, NULL, 0) >> }
    /\ subLast = NoCommand
    /\ memory = {}
    /\ memClock = 0
    /\ memLast = NoClean
    /\ regLast = NoRouting
    /\ mhThreads = {}
    /\ mhLast = NoCall
    /\ mhCalls = 0
    /\ exLast = NoTask
    /\ OAUTH_STATES = {}
    /\ oauthTh = [t \in Threads |-> OAuthIdle]
    /\ oauthIssued = 0
    /\ oauthLog = EmptyBag

NextCommands == HandleSubscriptionCommand

SpecCommands == InitCommands /\ [][NextCommands]_vars

----------------------------------------------------------------------------
(* Part 8: src/modules/integrations/auth_utils.py, the OAuth state tokens, *)
(* and handle_oauth_callback of http_handlers.py.  Every callback runs in  *)
(* a request thread; one step is one operation on the OAUTH_STATES dict.   *)

OAuthEvent(ev, k) == [ev |-> ev, token |-> k]
OAuthCount(ev, k) == CopiesIn(OAuthEvent(ev, k), oauthLog)
OAuthLogged(ev, k) == oauthLog (+) SetToBag({OAuthEvent(ev, k)})

\* Callback requests received so far
OAuthCallbacks ==
    LET S == {e \in BagToSet(oauthLog) : e.ev = "callback"}
    IN  BagCardinality([e \in S |-> oauthLog[e]])

OAuthEnd(t, result, http) ==
    oauthTh' = [oauthTh EXCEPT ![t].pc = "done", ![t].result = result,
                               ![t].http = http]

\* generate_oauth_state, lines 34-39: secrets.token_urlsafe(32) is a token
\* no earlier call returned
generate_oauth_state ==
    /\ oauthIssued < MaxTokens
    /\ oauthIssued' = oauthIssued + 1
    /\ OAUTH_STATES' = OAUTH_STATES \cup {oauthIssued + 1}
    /\ UNCHANGED << donnaVars, apiVars, storeVars, memory, memClock, memLast,
                    regLast, mhVars, subVars, oauthTh, oauthLog >>

\* handle_oauth_callback, lines 204-218: a request without state or code is
\* answered 400; else the state is verified.  State 0 is a string that was
\* never issued.
handle_oauth_callback(t) ==
    /\ oauthTh[t].pc = "idle"
    /\ OAuthCallbacks < MaxCallbacks
    /\ \/ /\ oauthTh' = [oauthTh EXCEPT ![t] =
                            [OAuthIdle EXCEPT !.pc = "done", !.http = "400"]]
          /\ oauthLog' = OAuthLogged("callback", 0)
       \/ \E k \in 0..oauthIssued :
             /\ oauthTh' = [oauthTh EXCEPT ![t] =
                   [OAuthIdle EXCEPT !.pc = "verify_in", !.state = k,
                                     !.late = (OAuthCount("verified", k) > 0)]]
             /\ oauthLog' = OAuthLogged("callback", k)
    /\ UNCHANGED << donnaVars, apiVars, storeVars, memory, memClock, memLast,
                    regLast, mhVars, subVars, OAUTH_STATES, oauthIssued >>

\* verify_oauth_state, line 51: if state in OAUTH_STATES; line 55 returns
\* None, which the callback answers with 400
VerifyIn(t) ==
    /\ oauthTh[t].pc = "verify_in"
    /\ IF oauthTh[t].state \in OAUTH_STATES
       THEN oauthTh' = [oauthTh EXCEPT ![t].pc = "verify_get"]
       ELSE OAuthEnd(t, "None", "400")
    /\ UNCHANGED << donnaVars, apiVars, storeVars, memory, memClock, memLast,
                    regLast, mhVars, subVars, OAUTH_STATES, oauthIssued,
                    oauthLog >>

\* line 52: user_info = OAUTH_STATES[state]; KeyError when another thread
\* has deleted the key (do_GET answers 500 for any exception)
VerifyGet(t) ==
    /\ oauthTh[t].pc = "verify_get"
    /\ IF oauthTh[t].state \in OAUTH_STATES
       THEN oauthTh' = [oauthTh EXCEPT ![t].pc = "verify_del"]
       ELSE OAuthEnd(t, "KeyError", "500")
    /\ UNCHANGED << donnaVars, apiVars, storeVars, memory, memClock, memLast,
                    regLast, mhVars, subVars, OAUTH_STATES, oauthIssued,
                    oauthLog >>

\* A removal that does not fail on a missing key
VerifyDelTolerant(t) ==
    /\ oauthTh[t].pc = "verify_del"
    /\ OAUTH_STATES' = OAUTH_STATES \ {oauthTh[t].state}
    /\ oauthLog' = OAuthLogged("verified", oauthTh[t].state)
    /\ oauthTh' = [oauthTh EXCEPT ![t].pc = "exchange",
                                  ![t].result = "user_info"]
    /\ UNCHANGED << donnaVars, apiVars, storeVars, memory, memClock, memLast,
                    regLast, mhVars, subVars, oauthIssued >>

\* lines 53-54: del OAUTH_STATES[state], KeyError when the key is gone; then
\* the user info is returned
VerifyDel(t) ==
    /\ oauthTh[t].pc = "verify_del"
    /\ IF oauthTh[t].state \in OAUTH_STATES
       THEN /\ OAUTH_STATES' = OAUTH_STATES \ {oauthTh[t].state}
            /\ oauthLog' = OAuthLogged("verified", oauthTh[t].state)
            /\ oauthTh' = [oauthTh EXCEPT ![t].pc = "exchange",
                                          ![t].result = "user_info"]
       ELSE /\ OAuthEnd(t, "KeyError", "500")
            /\ UNCHANGED << OAUTH_STATES, oauthLog >>
    /\ UNCHANGED << donnaVars, apiVars, storeVars, memory, memClock, memLast,
                    regLast, mhVars, subVars, oauthIssued >>

\* lines 227-250: 400 for another integration than the token's; else
\* exchange_oauth_code is called, and the callback ends with 500 when it or
\* store_oauth_tokens fails and goes on to the success page otherwise
ExchangeCode(t) ==
    /\ oauthTh[t].pc = "exchange"
    /\ \/ /\ oauthTh' = [oauthTh EXCEPT ![t].pc = "done", ![t].http = "400"]
          /\ oauthLog' = oauthLog
       \/ /\ \E code \in {"500", "200"} :
                oauthTh' = [oauthTh EXCEPT ![t].pc = "done", ![t].http = code]
          /\ oauthLog' = OAuthLogged("exchanged", oauthTh[t].state)
    /\ UNCHANGED << donnaVars, apiVars, storeVars, memory, memClock, memLast,
                    regLast, mhVars, subVars, OAUTH_STATES, oauthIssued >>

\* The response is written and the request thread ends
OAuthReturn(t) ==
    /\ oauthTh[t].pc = "done"
    /\ oauthTh' = [oauthTh EXCEPT ![t] = OAuthIdle]
    /\ UNCHANGED << donnaVars, apiVars, storeVars, memory, memClock, memLast,
                    regLast, mhVars, subVars, OAUTH_STATES, oauthIssued,
                    oauthLog >>

InitOAuth == DonnaIdle /\ ApiIdle /\ StoreIdle /\ ModIdle

NextOAuth ==
    \/ generate_oauth_state
    \/ \E t \in Threads :
          \/ handle_oauth_callback(t)
          \/ VerifyIn(t)
          \/ VerifyGet(t)
          \/ VerifyDel(t)
          \/ ExchangeCode(t)
          \/ OAuthReturn(t)

SpecOAuth == InitOAuth /\ [][NextOAuth]_vars

----------------------------------------------------------------------------
(* Properties of PostHandler *)

RowsWith(tbl, g) == Cardinality({i \in DOMAIN tbl : tbl[i].guid = g})

\* Number of send_text calls made by turns handling the inbound guid g
SendsFor(g) ==
    LET S == {e \in BagToSet(outbox) : e.guid = g}
    IN  BagCardinality([e \in S |-> outbox[e]])

\* Number of send_text calls of one kind made by the turn of thread t
SendsOfKind(t, kind) ==
    LET S == {e \in BagToSet(outbox) : e.turn = th[t].turn /\ e.kind = kind}
    IN  BagCardinality([e \in S |-> outbox[e]])

\* The turn of thread t has executed its save of the inbound message (a turn
\* for an event with isFromMe never does)
Saved(t) ==
    /\ th[t].pc \notin {"idle", "first_count", "save_inbound"}
    /\ th[t].sender # BotSender

\* The turn of thread t has taken the gate (lines 231-256)
Gated(t) == th[t].route # NULL

\* Positions inside process_message_with_alfred after the welcome branch,
\* i.e. in create_assistant_response or sending its answer
AssistantPcs == {"get_thread", "retrieve", "create", "save_thread",
                 "add_message", "create_run", "poll", "send_reply",
                 "save_reply"}
WelcomePcs == {"send_welcome", "save_welcome"}

\* C1: however often the same message_guid is delivered, one after the other,
\* the store holds exactly one row with that guid once a delivery of it has
\* passed save_message, and at most one send_text call was made for it.
C1_DuplicateDeliveryIdempotent ==
    \A g \in Guids :
        /\ RowsWith(messages, g) <= 1
        /\ SendsFor(g) <= 1
        /\ \A t \in Threads :
             (th[t].guid = g /\ Saved(t)) => RowsWith(messages, g) = 1

\* A second delivery of a guid has ended; the first one stored the row and
\* sent its one text.
C1_Witness ==
    \E t \in Threads :
        /\ th[t].pc = "done" /\ th[t].dup /\ th[t].guid \in Guids
        /\ RowsWith(messages, th[t].guid) = 1
        /\ SendsFor(th[t].guid) = 1

\* C2: a delivery whose message_guid was stored already is answered 200.
C2_DuplicateAnswered2xx ==
    \A t \in Threads :
        (th[t].pc = "done" /\ th[t].dup) => th[t].http = "200"

\* C5: a turn that reads the status 'active' at the gate goes on to
\* process_message_with_alfred whatever the message count, and sends neither
\* the payment prompt nor the expired notice.
C5_ActiveAlwaysAllowed ==
    \A t \in Threads :
        (Gated(t) /\ th[t].status = "active") =>
            /\ th[t].route = "alfred"
            /\ th[t].pc \in AssistantPcs \cup WelcomePcs \cup {"done"}
            /\ SendsOfKind(t, "payment") = 0
            /\ SendsOfKind(t, "expired") = 0

\* An active sender beyond the free-tier limit is inside the assistant call
C5_Witness ==
    \E t \in Threads :
        /\ th[t].status = "active" /\ th[t].count >= FreeTierLimit
        /\ th[t].pc = "get_thread"

\* Number of stored answers of the bot in chat c (the free-tier counter)
BotCount(c) ==
    Cardinality({i \in DOMAIN messages :
                    messages[i].chat = c /\ messages[i].sender = BotSender})

\* C6: for a status other than active and expired the turn is allowed exactly
\* when fewer than 30 bot-authored messages are stored for the conversation.
\* Stated on the position right after the gate, where the stored answers are
\* those the gate saw.
C6_GateCountsBotMessages ==
    \A t \in Threads :
        (th[t].pc \in {"send_payment", "send_welcome", "get_thread"}
            /\ th[t].status \notin {"active", "expired"}) =>
            (th[t].route = "alfred" <=> BotCount(th[t].chat) < FreeTierLimit)

\* C7: a turn that reads the status 'expired' at the gate is denied whatever
\* the message count: it sends the expired notice and never enters
\* process_message_with_alfred.
C7_ExpiredAlwaysDenied ==
    \A t \in Threads :
        (Gated(t) /\ th[t].status = "expired") =>
            /\ th[t].route = "expired"
            /\ th[t].pc \in {"send_expired", "done"}
            /\ th[t].pc = "done" => SendsOfKind(t, "expired") >= 1
            /\ SendsOfKind(t, "welcome") = 0
            /\ SendsOfKind(t, "reply") = 0

\* An expired sender below the free-tier limit has been sent the notice
C7_Witness ==
    \E t \in Threads :
        /\ th[t].status = "expired" /\ th[t].count < FreeTierLimit
        /\ th[t].pc = "done" /\ th[t].guid \in Guids
        /\ SendsOfKind(t, "expired") = 1

\* C8: the first message of a conversation ends in the welcome flow whatever
\* the subscription status: a turn that found no stored message for its chat
\* and took the gate neither sends a notice nor enters the assistant.
C8_FirstMessageWelcomed ==
    \A t \in Threads :
        (Gated(t) /\ th[t].first) =>
            th[t].pc \in WelcomePcs \cup {"done"}
            /\ SendsOfKind(t, "expired") = 0
            /\ SendsOfKind(t, "payment") = 0

\* C9: with one turn at a time, a remote thread is created only while no
\* thread is stored for the chat, every turn that reaches the remote thread
\* works on the stored thread id, and the store never holds two thread ids for
\* one chat.
C9_ThreadReuse ==
    /\ \A c \in Chats :
        /\ created[c] <= 1
        /\ Cardinality(ThreadRows(c)) <= 1
    /\ \A t \in Threads :
        /\ th[t].pc \in {"create", "save_thread"} => ThreadRows(th[t].chat) = {}
        /\ th[t].pc \in {"retrieve", "add_message", "create_run", "poll"} =>
             /\ th[t].thr # NoThread
             /\ th[t].thr = get_thread_id(th[t].chat)

\* The second turn of a conversation that began without a thread retrieves the
\* thread the first turn created and stored
C9_Witness ==
    \E t \in Threads :
        /\ th[t].pc = "retrieve"
        /\ CountRows(messages, th[t].chat) < Half
        /\ created[th[t].chat] = 1
        /\ th[t].thr = nextThread

\* C11: the poll loop ends on a run that reached a terminal status other than
\* 'completed': the step the thread takes from there leaves the loop with the
\* fallback apology as the answer.
C11_PollLoopStops ==
    [][\A t \in Threads :
          (th[t].pc = "poll" /\ th[t].run = "failed" /\ th'[t] # th[t]) =>
              (th'[t].pc = "send_reply" /\ th'[t].resp = "apology")]_vars

\* C12: a turn in which a remote call raised answers with the fallback apology
\* and the thread id that was stored for the conversation when the turn read
\* it is still the stored one.
C12_ErrorKeepsThread ==
    \A t \in Threads :
        (th[t].resp = "apology") =>
            /\ th[t].pc \in {"send_reply", "save_reply", "done"}
            /\ th[t].pc = "done" => SendsOfKind(t, "reply") = 1
            /\ th[t].thr0 # NoThread => get_thread_id(th[t].chat) = th[t].thr0

\* The apology of a turn that found a stored thread has been sent
C12_Witness ==
    \E t \in Threads :
        /\ th[t].resp = "apology" /\ th[t].pc = "done"
        /\ th[t].thr0 # NoThread
        /\ get_thread_id(th[t].chat) = th[t].thr0

\* C13: a turn that created its thread has stored the thread id before it
\* submits content, so the mapping is stored while and after the content is
\* submitted, also when the submission raises.
C13_ThreadStoredBeforeContent ==
    \A t \in Threads :
        (th[t].thr0 = NoThread /\ th[t].thr # NoThread
            /\ th[t].pc \in {"add_message", "create_run", "poll", "send_reply",
                              "save_reply", "done"}) =>
            get_thread_id(th[t].chat) = th[t].thr

\* The content submission of a turn that created the thread has raised and
\* the mapping is stored
C13_Witness ==
    \E t \in Threads :
        /\ th[t].thr0 = NoThread /\ th[t].thr # NoThread
        /\ th[t].pc = "send_reply" /\ th[t].resp = "apology"
        /\ get_thread_id(th[t].chat) = th[t].thr

\* C10: at most one remote thread is ever created for a conversation, also
\* when its turns run in concurrent request threads.
C10_OneThreadPerConversation ==
    \A c \in Chats : created[c] <= 1

\* C27: of the request threads that handle deliveries of one message_guid at
\* the same time at most one passes the inbound save: one row holds the guid,
\* at most one thread takes the gate for it and at most one text is sent for it.
C27_OneOfConcurrentDuplicates ==
    \A g \in Guids :
        /\ RowsWith(messages, g) <= 1
        /\ Cardinality({t \in Threads : th[t].guid = g /\ Gated(t)}) <= 1
        /\ SendsFor(g) <= 1
        /\ \A t \in Threads :
             (th[t].guid = g /\ th[t].http = "IntegrityError"
                 /\ th[t].sent = NoGuid) => ~Gated(t)

\* Two deliveries of a guid arrived before either was stored; one thread took
\* the gate and sent its text, the save of the other raised
C27_Witness ==
    \E t, u \in Threads :
        /\ t # u /\ th[t].guid = th[u].guid /\ th[t].guid \in Guids
        /\ ~th[t].dup /\ ~th[u].dup
        /\ Gated(t) /\ th[t].pc = "done" /\ SendsFor(th[t].guid) = 1
        /\ th[u].pc = "done" /\ th[u].http = "IntegrityError" /\ ~Gated(u)

\* C18: a non-self message whose body is the activation code sets the sender's
\* status to 'active', is answered with the activation confirmation and ends
\* without taking the gate.
C18_ActivationCodeActivates ==
    \A t \in Threads :
        (th[t].pc = "done" /\ th[t].text = ActivationCode /\ ~th[t].dup
            /\ th[t].chat # NULL /\ th[t].sender # Unknown) =>
            /\ th[t].http = "200"
            /\ ~Gated(t)
            /\ SendsOfKind(t, "activation") = 1
            /\ StatusResults(PhoneOf(th[t].sender), EmailOf(th[t].sender))
                  = {"active"}

\* C21: a step of a request thread handling an inbound message that is neither
\* backdoor code (the counts, the status lookup, the gate decision, the sends
\* and the assistant call) leaves the subscriptions table as it was.
C21_GateWritesNoSubscription ==
    [][\A t \in Threads :
          (th'[t] # th[t]
              /\ th'[t].text \notin {ActivationCode, DeactivationCode}) =>
              UNCHANGED subscriptions]_vars

\* A free-tier sender without a row of its own was let through the gate while
\* the table held the row of another identity
C21_Witness ==
    \E t \in Threads :
        /\ th[t].pc = "done" /\ th[t].route = "alfred" /\ th[t].status = NULL
        /\ th[t].sender = Email
        /\ subscriptions = << SubRow(Phone, NULL, "active") >>

\* Number of send_text calls made by the turn of thread t
SendsOfTurn(t) ==
    LET S == {e \in BagToSet(outbox) : e.turn = th[t].turn}
    IN  BagCardinality([e \in S |-> outbox[e]])

\* C22: a turn denied at the free-tier threshold sends the payment prompt and
\* nothing else, never enters the assistant, and the rows of its conversation
\* stay those the gate counted: the inbound row is the last one, the prompt is
\* not stored.
C22_DeniedTurnStoresInboundOnly ==
    \A t \in Threads :
        (th[t].route = "payment") =>
            /\ th[t].count >= FreeTierLimit
            /\ th[t].pc \in {"send_payment", "done"}
            /\ th[t].thr = NoThread /\ th[t].run = NULL /\ th[t].resp = NULL
            /\ SendsOfTurn(t) = SendsOfKind(t, "payment")
            /\ SendsOfKind(t, "payment") = IF th[t].pc = "done" THEN 1 ELSE 0
            /\ CountRows(messages, th[t].chat) = th[t].count
            /\ messages[Len(messages)] =
                  Row(th[t].chat, th[t].sender, th[t].guid)

\* The turn after FreeTierLimit stored rows of a sender without subscription
\* has ended with the prompt sent
C22_Witness ==
    \E t \in Threads :
        /\ th[t].pc = "done" /\ th[t].route = "payment"
        /\ th[t].status = NULL
        /\ SendsOfKind(t, "payment") = 1

\* C24: a new-message event with isFromMe is stored as a row of its
\* conversation, and its turn takes no gate, sends nothing and never enters the
\* assistant.
C24_SelfMessageStoredOnly ==
    \A t \in Threads :
        (th[t].pc = "done" /\ th[t].sender = BotSender /\ th[t].chat # NULL) =>
            /\ \E i \in DOMAIN messages :
                  messages[i].chat = th[t].chat /\ messages[i].guid = th[t].guid
            /\ ~Gated(t)
            /\ SendsOfTurn(t) = 0
            /\ th[t].thr = NoThread /\ th[t].run = NULL

\* C25: a new-message event whose first chat entry has no guid is answered 400,
\* stores no row and sends nothing.
C25_MissingChatRejected ==
    \A t \in Threads :
        (th[t].pc = "done" /\ th[t].chat = NULL /\ th[t].sender \in Senders) =>
            /\ th[t].http = "400"
            /\ SendsOfTurn(t) = 0
            /\ \A i \in DOMAIN messages : messages[i].chat # NULL

\* C26: a turn has made no send_text call before it executed the save of its
\* inbound message; a turn that sent something has its inbound row in the store;
\* a turn whose inbound save raised (the guid was stored already when the
\* delivery arrived) ends without any send.
C26_NoSendWithoutInboundRow ==
    \A t \in Threads :
        /\ ~Saved(t) => SendsOfTurn(t) = 0
        /\ SendsOfTurn(t) > 0 =>
              \E i \in DOMAIN messages :
                  messages[i] = Row(th[t].chat, th[t].sender, th[t].guid)
        /\ th[t].dup => SendsOfTurn(t) = 0
        /\ (th[t].http = "IntegrityError" /\ th[t].sent = NoGuid) =>
              /\ th[t].pc = "done"
              /\ ~Gated(t)
              /\ SendsOfTurn(t) = 0

\* The inbound save of a redelivered guid has raised and the turn has ended
\* without a send
C26_Witness ==
    \E t \in Threads :
        /\ th[t].pc = "done" /\ th[t].http = "IntegrityError" /\ th[t].dup
        /\ th[t].sender \in Senders
        /\ SendsOfTurn(t) = 0
        /\ RowsWith(messages, th[t].guid) = 1

\* C19: a payment webhook that verify_stripe_signature rejects is answered 400
\* and writes no subscription row, stores no message and sends nothing.
C19_RejectedWebhookChangesNothing ==
    [][(stripeLast'.turn # stripeLast.turn /\ ~stripeLast'.verified) =>
          /\ stripeLast'.http = "400"
          /\ UNCHANGED << subscriptions, outbox, messages >>]_vars

\* A rejected webhook was answered 400 after an earlier one wrote a status
C19_Witness ==
    /\ stripeLast.turn = 2 /\ ~stripeLast.verified /\ stripeLast.http = "400"
    /\ Len(subscriptions) >= 1

\* Rows a status look-up by phone number p or, without one, by email e reads
SubscriptionHits(p, e) ==
    IF p # NULL
    THEN {i \in DOMAIN subscriptions : subscriptions[i].phone = p}
    ELSE {i \in DOMAIN subscriptions : subscriptions[i].email = e}

\* C20: for a phone identity and for an email-only identity alike,
\* check_subscription_status returns the status written last for it.
C20_StatusIsLatestWrite ==
    \A id \in { << Phone, NULL >>, << NULL, Email >> } :
        LET hit == SubscriptionHits(id[1], id[2])
        IN  hit # {} =>
              StatusResults(id[1], id[2]) =
                 {subscriptions[CHOOSE i \in hit : \A j \in hit : j <= i].status}

\* An earlier turn of the conversation of thread t's turn was denied with
\* the payment prompt
DeniedBefore(t) ==
    \E e \in BagToSet(outbox) :
        e.kind = "payment" /\ e.chat = th[t].chat /\ e.turn < th[t].turn

\* C35: free-tier denial is permanent: once a turn of a conversation has been
\* denied with the payment prompt, every later turn of that conversation that
\* reaches the gate with a status other than 'active' is denied as well (the
\* stored message count of a conversation never goes down).
C35_DenialIsPermanent ==
    \A t \in Threads :
        (Gated(t) /\ th[t].status # "active" /\ DeniedBefore(t))
            => /\ th[t].route \in {"payment", "expired"}
               /\ th[t].count >= FreeTierLimit

\* The second turn of a conversation has been denied with the payment prompt
\* after the first one was.
C35_Witness ==
    \E t \in Threads :
        /\ th[t].pc = "done" /\ th[t].route = "payment" /\ DeniedBefore(t)
        /\ SendsOfKind(t, "payment") = 1

\* Requests of PostHandler that sent the welcome message to conversation c
WelcomedTurns(c) ==
    {e.turn : e \in {x \in BagToSet(outbox) :
                        x.chat = c /\ x.kind = "welcome"}}

\* C36: the welcome message is sent at most once per conversation for every
\* interleaving of request threads: of several distinct first messages of a
\* new conversation delivered concurrently, only one turn takes the welcome
\* flow.
C36_WelcomeOncePerConversation ==
    \A c \in Chats : Cardinality(WelcomedTurns(c)) <= 1

----------------------------------------------------------------------------
(* Properties of MessageWebhookHandler *)

WelcomedGuids(c) ==
    {e.guid : e \in {x \in BagToSet(apiOutbox) :
                        x.chat = c /\ x.kind = "welcome"}}

----------------------------------------------------------------------------
(* Properties of the stores *)

\* No two rows of the table hold the same guid (rows written without a guid
\* hold none)
NoDuplicateGuid(tbl) ==
    \A i, j \in DOMAIN tbl :
        (i # j /\ tbl[i].guid # NoGuid) => tbl[i].guid # tbl[j].guid

\* C4: after any sequence of save_message calls, in any interleaving of the
\* calling threads, no two rows of a messages table have the same
\* message_guid.
C4_MessageGuidUnique ==
    /\ NoDuplicateGuid(messages)
    /\ NoDuplicateGuid(modMessages)
    /\ NoDuplicateGuid(apiMessages)

\* A save_message call met a stored guid and the table still holds one row
\* with it, next to a row with another guid
C4_Witness ==
    /\ lastSave.conflict
    /\ \/ /\ lastSave.table = "donna"
          /\ RowsWith(messages, lastSave.guid) = 1
          /\ Len(messages) = 2
       \/ /\ lastSave.table = "modules"
          /\ RowsWith(modMessages, lastSave.guid) = 1
          /\ Len(modMessages) = 2

----------------------------------------------------------------------------
(* Properties of the memory table *)

MemCount(c, ty) == Cardinality(MemRowsOf(c, ty))

\* C14: right after clean_up_memories(chat, max_memories) the chat has at most
\* 5 summaries and, of every other type, at most max_memories \div T rows,
\* T being the number of memory types the chat had when the call began.
C14_MemoryBounded ==
    (memLast.op = "clean" /\ memLast.types > 0) =>
        /\ MemCount(memLast.chat, "summary") <= SummaryKeep
        /\ \A ty \in MemTypes \ {"summary"} :
              MemCount(memLast.chat, ty) <= memLast.max \div memLast.types

\* A clean-up of a chat with several types removed rows of a type other than
\* summary and left exactly the share of that type
C14_Witness ==
    /\ memLast.op = "clean" /\ memLast.types >= 2
    /\ \E ty \in memLast.removed \ {"summary"} :
         /\ MemCount(memLast.chat, ty) >= 1
         /\ MemCount(memLast.chat, ty) = memLast.max \div memLast.types

\* C15: the summary of the chat that was written last before a clean-up is
\* still in the table after it.
C15_LatestSummaryKept ==
    (memLast.op = "clean" /\ memLast.latest # 0) =>
        \E r \in MemRowsOf(memLast.chat, "summary") : r.id = memLast.latest

\* Memory records of chat c over all types
MemTotal(c) == Cardinality({r \in memory : r.chat = c})

\* C37: after clean_up_memories(chat, max_memories) has returned, the chat
\* holds at most max_memories + 5 memory records over all its types, however
\* many types it has.
C37_TotalMemoryBounded ==
    memLast.op = "clean" =>
        MemTotal(memLast.chat) <= memLast.max + SummaryKeep

\* A clean-up of a chat with four memory types removed rows and left five
\* summaries and a row of every other type
C37_Witness ==
    /\ memLast.op = "clean" /\ memLast.types = Len(TableTypes)
    /\ memLast.removed # {}
    /\ MemCount(memLast.chat, "summary") = SummaryKeep
    /\ \A i \in 2..Len(TableTypes) : MemCount(memLast.chat, TableTypes[i]) = 1

----------------------------------------------------------------------------
(* Properties of the IntegrationRegistry *)

\* Position of an integration in the sequence of register calls
RegistrationRank(name) ==
    CHOOSE i \in DOMAIN Registered :
        Registered[i] = name /\ \A j \in DOMAIN Registered :
                                    Registered[j] = name => i <= j

\* C16: the integration found for a message is one that accepts it and none
\* registered before it accepts the message; without an accepting integration
\* the result is None.
C16_EarliestRegisteredWins ==
    regLast.result.kind # NULL =>
        IF regLast.handlers = {} THEN regLast.found = NULL
        ELSE /\ regLast.found \in regLast.handlers
             /\ \A n \in regLast.handlers :
                   RegistrationRank(regLast.found) <= RegistrationRank(n)

\* Two integrations accept the message and the one registered first is found
C16_Witness ==
    /\ regLast.handlers = {"Calendar", "Discord"}
    /\ regLast.found = "Calendar"

\* C17: when process of the selected integration raises, process_message
\* returns an apology naming the integration instead of raising.
C17_ProcessErrorBecomesApology ==
    (regLast.found # NULL /\ regLast.raises) =>
        regLast.result = [kind |-> "apology", name |-> regLast.found]

----------------------------------------------------------------------------
(* Properties of message_handler.py and of the extraction tasks *)

\* C23: a call of process_message_with_alfred with is_first_message shares
\* the contact card and sends the welcome message, does not call
\* create_alfred_response, and writes one memory record: a 'summary' of the
\* chat.
C23_FirstMessageSeedsSummary ==
    (mhLast.call > 0 /\ mhLast.first) =>
        /\ mhLast.pc = "idle"
        /\ mhLast.sends = << "contact", "welcome" >>
        /\ mhLast.assistant = NULL
        /\ ~mhLast.summarized
        /\ mhLast.wrote = << "summary" >>
        /\ Cardinality(memory) = mhLast.mem0 + 1
        /\ \E r \in MemRowsOf(mhLast.chat, "summary") :
              \A x \in memory : x.id <= r.id

\* The first message of a new conversation, long enough for every extraction
\* task and holding a preference keyword, was welcomed
C23_Witness ==
    /\ mhLast.call = 1 /\ mhLast.first /\ mhLast.rows0 = 0
    /\ mhLast.len > EntityMinLen /\ mhLast.pref
    /\ CountBot(modMessages, Chat) = 1
    /\ Cardinality(memory) = 1

\* C28: a turn answered by create_alfred_response in which the number of
\* stored answers of the bot reaches a multiple of 10 has called
\* create_conversation_summary.
C28_SummaryAtEveryTenthBotMessage ==
    (mhLast.pc = "idle" /\ mhLast.call > 0 /\ mhLast.assistant = "ok"
        /\ CountBot(modMessages, mhLast.chat) \div SummaryEvery
              > mhLast.bot0 \div SummaryEvery) =>
        mhLast.summarized

\* C29: a turn in which the number of stored messages of the conversation
\* passes a multiple of 50 has called clean_up_memories.
C29_CleanUpAtEveryFiftiethMessage ==
    (mhLast.pc = "idle" /\ mhLast.call > 0 /\ ~mhLast.first
        /\ CountRows(modMessages, mhLast.chat) \div CleanUpEvery
              > mhLast.rows0 \div CleanUpEvery) =>
        mhLast.cleaned

\* The context block that holds the newest records of what get_memories
\* returned, and at most 3 of the important notes
ContextOfNewest(seen) ==
    [seen EXCEPT !.notes = IF seen.notes > NotesKept THEN NotesKept
                           ELSE seen.notes]

\* C31: the context block create_alfred_response builds for a turn holds the
\* most recent summary, the most recent preference and the most recent
\* sentiment record of the conversation and at most 3 important notes,
\* whatever memory records are stored.
C31_ContextHoldsNewestRecords ==
    (mhLast.call > 0 /\ mhLast.remote \in AssistantOutcomes \ {"raises_early"})
        => mhLast.context = ContextOfNewest(mhLast.seen)

\* C32: when the remote run completes, create_alfred_response returns the
\* answer of the assistant, also for a conversation that has stored memory
\* records; the apology is returned only when a remote call failed.
C32_AnswerWhenRunCompletes ==
    /\ mhLast.remote \in {"ok", "payment"} =>
           /\ mhLast.assistant = mhLast.remote
           /\ mhLast.sends \in {<< "reply" >>, << "payment" >>}
    /\ mhLast.sends = << "apology" >> =>
           mhLast.remote \in {"raises_early", "raises"}

\* Outcomes in which the model call raised or its text is not the structure asked for
ExtractionFailures == {"raises", "malformed", "not_object", "not_list", "mixed"}

\* C30: an extraction task whose model call raised or returned malformed
\* structured output has written no memory record and has returned normally.
C30_FailedExtractionWritesNothing ==
    (exLast.task # NULL /\ exLast.out \in ExtractionFailures) =>
        /\ exLast.wrote = << >>
        /\ exLast.returned

----------------------------------------------------------------------------
(* Properties of the subscription commands and of the OAuth state tokens *)

\* C34: a message containing "unsubscribe" from a sender whose current status
\* is 'active' is handled as a cancellation: the status 'cancelled' is
\* recorded for the sender, as for a message containing "cancel".
C34_UnsubscribeCancels ==
    (subLast.called /\ subLast.status = "active"
        /\ Contains(<< "un", "subscribe" >>, message_lower(subLast.text))) =>
        /\ subLast.response = "cancelled"
        /\ subRows[Len(subRows)] =
              [ModSubRow("cancelled", NULL, subLast.email, 0)
                  EXCEPT !.ts = subRows[Len(subRows)].ts]

\* C38: a state token issued by generate_oauth_state is verified at most
\* once: a verification that returned the user info has removed the token, a
\* callback that arrives after it gets None, and of the callbacks carrying
\* one token at most one reaches the token exchange, for every interleaving
\* of the request threads.
C38_StateTokenUsedOnce ==
    /\ \A k \in 1..oauthIssued :
          /\ OAuthCount("verified", k) <= 1
          /\ OAuthCount("exchanged", k) <= 1
          /\ OAuthCount("verified", k) = 1 => k \notin OAUTH_STATES
    /\ \A t \in Threads :
          (oauthTh[t].late /\ oauthTh[t].pc = "done") =>
              (oauthTh[t].result = "None" /\ oauthTh[t].http = "400")

\* Two concurrent callbacks carried the same issued token: one was verified
\* and exchanged its code, the other ended with KeyError inside
\* verify_oauth_state
C38_Witness ==
    \E t \in Threads : \E u \in Threads \ {t} :
        /\ oauthTh[t].state >= 1 /\ oauthTh[u].state = oauthTh[t].state
        /\ oauthTh[t].pc = "done" /\ oauthTh[t].http = "200"
        /\ oauthTh[u].pc = "done" /\ oauthTh[u].result = "KeyError"
        /\ OAuthCount("exchanged", oauthTh[t].state) = 1

====
